---- MODULE Spec2Model ----
(***************************************************************************)
(* Reading assessment engine of the Umeed backend                          *)
(* (src/backend/advanced_reading_coach.py, class AdvancedAIReadingCoach):  *)
(* text normalisation, the difflib-based accuracy analysis, the fluency,   *)
(* pronunciation and phonics analyses, the session store with the progress *)
(* report and its trends, and the threads that share the store's           *)
(* connection; and the fluency score that AIReadingCoach                   *)
(* (src/backend/ai_reading_coach.py) computes from word timestamps.        *)
(*                                                                         *)
(* A text (a Python str) is a sequence of one-character strings.  A value  *)
(* that is not a str is the one-element sequence NotAString.  A float that *)
(* the code obtains by one division of two integers is the pair            *)
(* <<numerator, denominator>>; two such floats are equal exactly when the  *)
(* fractions are, since IEEE division is correctly rounded.                *)
(***************************************************************************)
EXTENDS Integers, Sequences, FiniteSets, TLC

VARIABLES
    pc,                 \* position of the call under analysis
    text,               \* argument of _normalize_text
    normalized,         \* _normalize_text(text)
    renormalized,       \* _normalize_text(normalized)
    expected,           \* argument `expected` of _analyze_reading_accuracy
    transcribed,        \* argument `transcribed` of _analyze_reading_accuracy
    accuracy_analysis,  \* the dict _analyze_reading_accuracy returns
    values,             \* argument of _calculate_trend
    trend,              \* the str _calculate_trend returns
    audio_data,         \* len(audio_data) of _analyze_reading_fluency, in bytes
    fluency_analysis,   \* the dict _analyze_reading_fluency returns
    fluency_again,      \* the dict a second call on the same arguments returns
    reading_sessions,   \* rows of table reading_sessions
    reading_goals,      \* rows of table reading_goals
    phonics_progress,   \* rows of table phonics_progress
    request,            \* the call of a public method being answered
    response,           \* the dict that call returns
    in_transaction,     \* self.conn has an open transaction
    worker_job,         \* per thread: the arguments of its _store_reading_session
    worker_pc,          \* per thread: its position in _store_reading_session
    observed,           \* the rows the SELECT of track_reading_progress fetched
    pronunciation_analysis, \* the dict _analyze_pronunciation returns
    phonics_analysis,   \* the dict _analyze_phonics_patterns returns
    phonetic1,          \* first argument of _calculate_phonetic_similarity
    phonetic2,          \* second argument of _calculate_phonetic_similarity
    phonetic_similarity, \* the float _calculate_phonetic_similarity returns
    word_timestamps,    \* argument of AIReadingCoach._calculate_fluency_score
    timestamp_fluency   \* the float _calculate_fluency_score returns

fluency_vars == <<audio_data, fluency_analysis, fluency_again>>

store_vars == <<reading_sessions, reading_goals, phonics_progress,
                request, response>>

wordwise_vars == <<pronunciation_analysis, phonics_analysis,
                   phonetic1, phonetic2, phonetic_similarity>>

timing_vars == <<word_timestamps, timestamp_fluency>>

analysis_vars == <<text, normalized, renormalized, expected, transcribed,
                   accuracy_analysis, values, trend, fluency_vars, wordwise_vars,
                   timing_vars>>

connection_vars == <<in_transaction, worker_job, worker_pc, observed>>

vars == <<pc, analysis_vars, store_vars, connection_vars,
                   wordwise_vars, timing_vars>>

(***************************************************************************)
(* Bounds of the model.                                                    *)
(***************************************************************************)
MaxTextLen == 4
MaxExpectedWords == 4
MaxTranscribedWords == 4
MaxSessions == 3

(***************************************************************************)
(* Python values.                                                          *)
(***************************************************************************)
NotAString == <<"<not a str>">>
NotRun == [status |-> "not run"]

\* the tables as init_database creates them, and no call made
StoreIdle ==
    /\ reading_sessions = <<>>
    /\ reading_goals = <<>>
    /\ phonics_progress = <<>>
    /\ request = [op |-> "none"]
    /\ response = NotRun

\* no thread is inside a call on self.conn
ConnectionIdle ==
    /\ in_transaction = FALSE
    /\ worker_job = <<>>
    /\ worker_pc = <<>>
    /\ observed = <<>>

\* no fluency analysis has been asked for
FluencyIdle ==
    /\ audio_data = 0
    /\ fluency_analysis = NotRun
    /\ fluency_again = NotRun

\* no pronunciation or phonics analysis has been asked for
WordwiseIdle ==
    /\ pronunciation_analysis = NotRun
    /\ phonics_analysis = NotRun
    /\ phonetic1 = <<>>
    /\ phonetic2 = <<>>
    /\ phonetic_similarity = NotRun

\* no timestamps have been scored
TimingIdle ==
    /\ word_timestamps = <<>>
    /\ timestamp_fluency = NotRun

IsStr(v) == v # NotAString

(***************************************************************************)
(* Characters.  str.lower() maps the upper-case letters and leaves every   *)
(* other character alone; \w of the re module is the alphanumerics and the *)
(* underscore; \s and str.split() agree on what whitespace is.             *)
(***************************************************************************)
LowerLetters == {"a", "b", "c", "d", "e", "g", "h", "m", "n", "o", "s", "t"}
UpperLetters == {"A", "B", "C", "T"}
Digits == {"1"}
Whitespace == {" ", "\t"}
Punctuation == {",", ".", "_"}

char_lower(c) ==
    CASE c = "A" -> "a"
      [] c = "B" -> "b"
      [] c = "C" -> "c"
      [] c = "T" -> "t"
      [] OTHER -> c

IsWordChar(c) == c \in LowerLetters \cup UpperLetters \cup Digits \cup {"_"}
IsSpaceChar(c) == c \in Whitespace

str_lower(s) == [i \in 1..Len(s) |-> char_lower(s[i])]

\* re.sub(r'[^\w\s]', '', s)
re_sub_non_word(s) == SelectSeq(s, LAMBDA c : IsWordChar(c) \/ IsSpaceChar(c))

\* s.split(): the maximal runs of non-whitespace characters, in order
RECURSIVE SplitFrom(_, _, _)
SplitFrom(s, i, word) ==
    IF i > Len(s)
    THEN IF word = <<>> THEN <<>> ELSE <<word>>
    ELSE IF IsSpaceChar(s[i])
         THEN IF word = <<>>
              THEN SplitFrom(s, i + 1, <<>>)
              ELSE <<word>> \o SplitFrom(s, i + 1, <<>>)
         ELSE SplitFrom(s, i + 1, Append(word, s[i]))

str_split(s) == SplitFrom(s, 1, <<>>)

\* sep.join(words)
RECURSIVE str_join(_, _)
str_join(sep, words) ==
    IF words = <<>> THEN <<>>
    ELSE IF Len(words) = 1 THEN words[1]
    ELSE words[1] \o sep \o str_join(sep, Tail(words))

\* AdvancedAIReadingCoach._normalize_text
normalize_text(s) ==
    str_join(<<" ">>, str_split(re_sub_non_word(str_lower(s))))

(***************************************************************************)
(* difflib.SequenceMatcher(None, a, b) over two word lists, as             *)
(* _analyze_reading_accuracy constructs it: no junk predicate, autojunk    *)
(* left at its default.  Indices are Python's (0-based); a[i] of the code  *)
(* is a[i + 1] here.                                                       *)
(***************************************************************************)
Occurrences(b, w) == Cardinality({j \in 1..Len(b) : b[j] = w})

\* __chain_b: the words autojunk drops from b2j ("popular" ones, in a b of
\* 200 words or more)
PopularWords(b) ==
    IF Len(b) >= 200
    THEN {w \in {b[j] : j \in 1..Len(b)} : Occurrences(b, w) > (Len(b) \div 100) + 1}
    ELSE {}

\* j2len[j] after the rows up to i: the length of the common run of words
\* that ends at a[i], b[j], inside the window and over b2j's words only
RECURSIVE RunLength(_, _, _, _, _, _)
RunLength(a, b, alo, blo, i, j) ==
    IF i < alo \/ j < blo THEN 0
    ELSE IF a[i + 1] # b[j + 1] \/ b[j + 1] \in PopularWords(b) THEN 0
    ELSE 1 + RunLength(a, b, alo, blo, i - 1, j - 1)

\* the loops of find_longest_match over i in range(alo, ahi) and the j of
\* b2j[a[i]] in range(blo, bhi): best is replaced only by a longer run
RECURSIVE ScanLongest(_, _, _, _, _, _, _, _, _)
ScanLongest(a, b, alo, ahi, blo, bhi, i, j, best) ==
    IF i >= ahi THEN best
    ELSE IF j >= bhi THEN ScanLongest(a, b, alo, ahi, blo, bhi, i + 1, blo, best)
    ELSE LET k == RunLength(a, b, alo, blo, i, j)
         IN  ScanLongest(a, b, alo, ahi, blo, bhi, i, j + 1,
                 IF k > best[3] THEN <<i - k + 1, j - k + 1, k>> ELSE best)

\* the two loops that extend the match by equal words on either side
\* (isjunk is None, so no word of b is junk)
RECURSIVE ExtendBackward(_, _, _, _, _)
ExtendBackward(a, b, alo, blo, m) ==
    IF m[1] > alo /\ m[2] > blo /\ a[m[1]] = b[m[2]]
    THEN ExtendBackward(a, b, alo, blo, <<m[1] - 1, m[2] - 1, m[3] + 1>>)
    ELSE m

RECURSIVE ExtendForward(_, _, _, _, _)
ExtendForward(a, b, ahi, bhi, m) ==
    IF m[1] + m[3] < ahi /\ m[2] + m[3] < bhi /\ a[m[1] + m[3] + 1] = b[m[2] + m[3] + 1]
    THEN ExtendForward(a, b, ahi, bhi, <<m[1], m[2], m[3] + 1>>)
    ELSE m

find_longest_match(a, b, alo, ahi, blo, bhi) ==
    ExtendForward(a, b, ahi, bhi,
        ExtendBackward(a, b, alo, blo,
            ScanLongest(a, b, alo, ahi, blo, bhi, alo, blo, <<alo, blo, 0>>)))

\* the queue of get_matching_blocks followed by its sort: the blocks left
\* of the longest match, the match, the blocks right of it
RECURSIVE MatchingBlocksIn(_, _, _, _, _, _)
MatchingBlocksIn(a, b, alo, ahi, blo, bhi) ==
    LET x == find_longest_match(a, b, alo, ahi, blo, bhi)
        i == x[1]
        j == x[2]
        k == x[3]
    IN  IF k = 0 THEN <<>>
        ELSE (IF alo < i /\ blo < j
              THEN MatchingBlocksIn(a, b, alo, i, blo, j) ELSE <<>>)
             \o <<x>> \o
             (IF i + k < ahi /\ j + k < bhi
              THEN MatchingBlocksIn(a, b, i + k, ahi, j + k, bhi) ELSE <<>>)

\* adjacent blocks are merged into one
RECURSIVE CollapseAdjacent(_, _)
CollapseAdjacent(blocks, cur) ==
    IF blocks = <<>>
    THEN IF cur[3] > 0 THEN <<cur>> ELSE <<>>
    ELSE LET nxt == Head(blocks)
         IN  IF cur[1] + cur[3] = nxt[1] /\ cur[2] + cur[3] = nxt[2]
             THEN CollapseAdjacent(Tail(blocks), <<cur[1], cur[2], cur[3] + nxt[3]>>)
             ELSE (IF cur[3] > 0 THEN <<cur>> ELSE <<>>)
                  \o CollapseAdjacent(Tail(blocks), nxt)

\* faulty variant: the closing block <<len(a), len(b), 0>> is left out
get_matching_blocks_without_sentinel(a, b) ==
    CollapseAdjacent(MatchingBlocksIn(a, b, 0, Len(a), 0, Len(b)), <<0, 0, 0>>)

get_matching_blocks(a, b) ==
    Append(CollapseAdjacent(MatchingBlocksIn(a, b, 0, Len(a), 0, Len(b)), <<0, 0, 0>>),
           <<Len(a), Len(b), 0>>)

\* get_opcodes: <<tag, i1, i2, j1, j2>> for the stretch before each block,
\* then "equal" for the block itself
RECURSIVE OpcodesFrom(_, _, _)
OpcodesFrom(blocks, i, j) ==
    IF blocks = <<>> THEN <<>>
    ELSE LET ai == Head(blocks)[1]
             bj == Head(blocks)[2]
             size == Head(blocks)[3]
             tag == IF i < ai /\ j < bj THEN "replace"
                    ELSE IF i < ai THEN "delete"
                    ELSE IF j < bj THEN "insert"
                    ELSE ""
         IN  (IF tag # "" THEN <<<<tag, i, ai, j, bj>>>> ELSE <<>>)
             \o (IF size > 0 THEN <<<<"equal", ai, ai + size, bj, bj + size>>>> ELSE <<>>)
             \o OpcodesFrom(Tail(blocks), ai + size, bj + size)

get_opcodes(a, b) == OpcodesFrom(get_matching_blocks(a, b), 0, 0)

RECURSIVE SumSizes(_)
SumSizes(blocks) ==
    IF blocks = <<>> THEN 0 ELSE Head(blocks)[3] + SumSizes(Tail(blocks))

\* faulty variant: the words said over the words expected
word_count_ratio(a, b) == <<Len(b), Len(a)>>

\* faulty variant: the matches counted once, not twice
ratio_single_count(a, b) ==
    IF Len(a) + Len(b) > 0
    THEN <<SumSizes(get_matching_blocks(a, b)), Len(a) + Len(b)>>
    ELSE <<1, 1>>

\* faulty variant: 0.0 for two empty lists
ratio_zero_when_empty(a, b) ==
    IF Len(a) + Len(b) > 0
    THEN <<2 * SumSizes(get_matching_blocks(a, b)), Len(a) + Len(b)>>
    ELSE <<0, 1>>

\* ratio(): 2.0 * matches / (len(a) + len(b)), and 1.0 for two empty lists
ratio(a, b) ==
    IF Len(a) + Len(b) > 0
    THEN <<2 * SumSizes(get_matching_blocks(a, b)), Len(a) + Len(b)>>
    ELSE <<1, 1>>

\* words[i1:i2]
Slice(words, i1, i2) == SubSeq(words, i1 + 1, i2)

(***************************************************************************)
(* AdvancedAIReadingCoach._analyze_reading_accuracy                        *)
(***************************************************************************)
Mistake(op, expected_words, transcribed_words) ==
    CASE op[1] = "replace" ->
           [type |-> "substitution",
            expected |-> str_join(<<" ">>, Slice(expected_words, op[2], op[3])),
            actual |-> str_join(<<" ">>, Slice(transcribed_words, op[4], op[5])),
            position |-> op[2]]
      [] op[1] = "delete" ->
           [type |-> "omission",
            expected |-> str_join(<<" ">>, Slice(expected_words, op[2], op[3])),
            actual |-> <<>>,
            position |-> op[2]]
      [] op[1] = "insert" ->
           [type |-> "insertion",
            expected |-> <<>>,
            actual |-> str_join(<<" ">>, Slice(transcribed_words, op[4], op[5])),
            position |-> op[2]]

Mistakes(expected_words, transcribed_words) ==
    LET edits == SelectSeq(get_opcodes(expected_words, transcribed_words),
                           LAMBDA op : op[1] # "equal")
    IN  [n \in 1..Len(edits) |-> Mistake(edits[n], expected_words, transcribed_words)]

\* one sentence per mistake, built from its type and its two texts
Correction(mistake) ==
    [about |-> mistake.type, expected |-> mistake.expected, actual |-> mistake.actual]

Corrections(mistakes) ==
    LET all == [n \in 1..Len(mistakes) |-> Correction(mistakes[n])]
    IN  SubSeq(all, 1, IF Len(all) < 5 THEN Len(all) ELSE 5)

\* the except branch
AccuracyFallback ==
    [accuracy_score |-> <<1, 2>>, mistakes |-> <<>>, corrections |-> <<>>]

analyze_reading_accuracy(transcribed_text, expected_text) ==
    IF ~IsStr(transcribed_text) \/ ~IsStr(expected_text)
    THEN AccuracyFallback       \* .lower() raises on a value that is no str
    ELSE LET transcribed_words == str_split(normalize_text(transcribed_text))
             expected_words == str_split(normalize_text(expected_text))
             mistakes == Mistakes(expected_words, transcribed_words)
         IN  [accuracy_score |-> ratio(expected_words, transcribed_words),
              word_accuracy |-> Len(expected_words) - Len(mistakes),
              total_words |-> Len(expected_words),
              mistakes |-> mistakes,
              corrections |-> Corrections(mistakes)]


(***************************************************************************)
(* Specification SpecNormalize: _normalize_text applied to a text, then to *)
(* its own result.                                                         *)
(***************************************************************************)
NormalizeChars == {"a", "A", "_", ",", " ", "\t"}

RECURSIVE TextsUpTo(_, _)
TextsUpTo(chars, n) ==
    IF n = 0 THEN {<<>>}
    ELSE LET shorter == TextsUpTo(chars, n - 1)
         IN  shorter \cup {Append(s, c) : s \in shorter, c \in chars}

InitNormalize ==
    /\ pc = "start"
    /\ text \in TextsUpTo(NormalizeChars, MaxTextLen)
    /\ normalized = NotAString
    /\ renormalized = NotAString
    /\ expected = NotAString
    /\ transcribed = NotAString
    /\ accuracy_analysis = NotRun
    /\ values = <<>>
    /\ trend = "not run"
    /\ FluencyIdle
    /\ StoreIdle
    /\ WordwiseIdle
    /\ TimingIdle
    /\ ConnectionIdle

NormalizeText ==
    /\ pc = "start"
    /\ normalized' = normalize_text(text)
    /\ pc' = "normalized"
    /\ UNCHANGED <<text, renormalized, expected, transcribed,
                   accuracy_analysis, values, trend, fluency_vars, store_vars, connection_vars,
                   wordwise_vars, timing_vars>>

NormalizeAgain ==
    /\ pc = "normalized"
    /\ renormalized' = normalize_text(normalized)
    /\ pc' = "renormalized"
    /\ UNCHANGED <<text, normalized, expected, transcribed,
                   accuracy_analysis, values, trend, fluency_vars, store_vars, connection_vars,
                   wordwise_vars, timing_vars>>

NextNormalize == NormalizeText \/ NormalizeAgain

SpecNormalize == InitNormalize /\ [][NextNormalize]_vars

(***************************************************************************)
(* Specification SpecAccuracy: one call of _analyze_reading_accuracy.      *)
(* The arguments are word lists over small vocabularies written out as     *)
(* texts (the expected text also in title case with commas and irregular   *)
(* blanks), the passages of the documented scenarios, and values that are  *)
(* not strings.                                                            *)
(***************************************************************************)
ExpectedVocabulary == {<<"a">>, <<"b">>}
TranscribedVocabulary == {<<"a">>, <<"b">>, <<"c">>}

RECURSIVE WordListsUpTo(_, _)
WordListsUpTo(vocabulary, n) ==
    IF n = 0 THEN {<<>>}
    ELSE LET shorter == WordListsUpTo(vocabulary, n - 1)
         IN  shorter \cup {Append(ws, w) : ws \in shorter, w \in vocabulary}

char_upper(c) ==
    CASE c = "a" -> "A"
      [] c = "b" -> "B"
      [] c = "c" -> "C"
      [] c = "t" -> "T"
      [] OTHER -> c

TitleCase(w) == [i \in 1..Len(w) |-> IF i = 1 THEN char_upper(w[i]) ELSE w[i]]

Written(style, words) ==
    IF style = "plain"
    THEN str_join(<<" ">>, words)
    ELSE <<" ">> \o str_join(<<",", " ", "\t">>,
                             [n \in 1..Len(words) |-> TitleCase(words[n])]) \o <<".">>

The == <<"t", "h", "e">>
Cat == <<"c", "a", "t">>
Dog == <<"d", "o", "g">>
Sat == <<"s", "a", "t">>
On == <<"o", "n">>
Mat == <<"m", "a", "t">>

TheCatSatOnTheMat == <<The, Cat, Sat, On, The, Mat>>
TheDogSatOnTheMat == <<The, Dog, Sat, On, The, Mat>>
TheCatSatTheMat == <<The, Cat, Sat, The, Mat>>

ScenarioInputs ==
    {<<Written(style, TheCatSatOnTheMat), Written("plain", said)>> :
        style \in {"plain", "titled"},
        said \in {TheCatSatOnTheMat, TheDogSatOnTheMat, TheCatSatTheMat}}

AccuracyInputs ==
    {<<Written(style, ews), Written("plain", tws)>> :
        style \in {"plain", "titled"},
        ews \in WordListsUpTo(ExpectedVocabulary, MaxExpectedWords),
        tws \in WordListsUpTo(TranscribedVocabulary, MaxTranscribedWords)}
    \cup ScenarioInputs
    \cup {<<NotAString, <<"a">>>>, <<<<"a">>, NotAString>>, <<NotAString, NotAString>>}

InitAccuracy ==
    /\ pc = "start"
    /\ \E input \in AccuracyInputs :
          /\ expected = input[1]
          /\ transcribed = input[2]
    /\ accuracy_analysis = NotRun
    /\ text = NotAString
    /\ normalized = NotAString
    /\ renormalized = NotAString
    /\ values = <<>>
    /\ trend = "not run"
    /\ FluencyIdle
    /\ StoreIdle
    /\ WordwiseIdle
    /\ TimingIdle
    /\ ConnectionIdle

AnalyzeReadingAccuracy ==
    /\ pc = "start"
    /\ accuracy_analysis' = analyze_reading_accuracy(transcribed, expected)
    /\ pc' = "done"
    /\ UNCHANGED <<text, normalized, renormalized, expected, transcribed, values, trend,
                   fluency_vars, store_vars, connection_vars,
                   wordwise_vars, timing_vars>>

NextAccuracy == AnalyzeReadingAccuracy

SpecAccuracy == InitAccuracy /\ [][NextAccuracy]_vars

(***************************************************************************)
(* AdvancedAIReadingCoach._calculate_trend.  A score is an integer number  *)
(* of hundredths.  np.polyfit(x, values, 1)[0] is the least-squares slope  *)
(* of the values against x = 0..n-1, here the fraction                     *)
(*   (n * sum(x*y) - sum(x) * sum(y)) / (n * sum(x*x) - sum(x)^2)          *)
(* in hundredths per session.  polyfit works in floating point: where the  *)
(* exact slope is 0.01 or -0.01 the sign of its rounding error decides the *)
(* comparison, so that sign (-1, 0 or 1) is an input of the computation.   *)
(***************************************************************************)
RECURSIVE SumOver(_, _)
SumOver(f, n) == IF n = 0 THEN 0 ELSE f[n] + SumOver(f, n - 1)

\* <<numerator, denominator>> of the slope; the denominator is positive
\* for two values or more
trend_slope(ys) ==
    LET n == Len(ys)
        sx == SumOver([i \in 1..n |-> i - 1], n)
        sy == SumOver(ys, n)
        sxy == SumOver([i \in 1..n |-> (i - 1) * ys[i]], n)
        sxx == SumOver([i \in 1..n |-> (i - 1) * (i - 1)], n)
    IN  <<n * sxy - sx * sy, n * sxx - sx * sx>>

\* faulty variant: no slope is computed for fewer than three values
calculate_trend_from_three(ys, rounding) ==
    IF Len(ys) < 3 THEN "stable"
    ELSE LET slope == trend_slope(ys)
         IN  IF slope[1] > slope[2] \/ (slope[1] = slope[2] /\ rounding > 0)
             THEN "improving"
             ELSE IF slope[1] < -slope[2] \/ (slope[1] = -slope[2] /\ rounding < 0)
             THEN "declining"
             ELSE "stable"

\* faulty variant: the thresholds are 0 instead of 0.01 and -0.01
calculate_trend_by_sign(ys, rounding) ==
    IF Len(ys) < 2 THEN "stable"
    ELSE LET slope == trend_slope(ys)
         IN  IF slope[1] > 0 THEN "improving"
             ELSE IF slope[1] < 0 THEN "declining"
             ELSE "stable"

calculate_trend(ys, rounding) ==
    IF Len(ys) < 2 THEN "stable"
    ELSE LET slope == trend_slope(ys)
         IN  IF slope[1] > slope[2] \/ (slope[1] = slope[2] /\ rounding > 0)
             THEN "improving"
             ELSE IF slope[1] < -slope[2] \/ (slope[1] = -slope[2] /\ rounding < 0)
             THEN "declining"
             ELSE "stable"

(***************************************************************************)
(* Specification SpecTrend: one call of _calculate_trend on a history of   *)
(* up to MaxSessions scores.                                               *)
(***************************************************************************)
ScoreLevels == {0, 50, 51, 52, 60, 75, 90}

RECURSIVE HistoriesUpTo(_)
HistoriesUpTo(n) ==
    IF n = 0 THEN {<<>>}
    ELSE LET shorter == HistoriesUpTo(n - 1)
         IN  shorter \cup {Append(h, y) : h \in shorter, y \in ScoreLevels}

InitTrend ==
    /\ pc = "start"
    /\ values \in HistoriesUpTo(MaxSessions)
    /\ trend = "not run"
    /\ text = NotAString
    /\ normalized = NotAString
    /\ renormalized = NotAString
    /\ expected = NotAString
    /\ transcribed = NotAString
    /\ accuracy_analysis = NotRun
    /\ FluencyIdle
    /\ StoreIdle
    /\ WordwiseIdle
    /\ TimingIdle
    /\ ConnectionIdle

CalculateTrend ==
    /\ pc = "start"
    /\ \E rounding \in {-1, 0, 1} : trend' = calculate_trend(values, rounding)
    /\ pc' = "done"
    /\ UNCHANGED <<text, normalized, renormalized, expected, transcribed,
                   accuracy_analysis, values, fluency_vars, store_vars, connection_vars,
                   wordwise_vars, timing_vars>>

NextTrend == CalculateTrend

SpecTrend == InitTrend /\ [][NextTrend]_vars

(***************************************************************************)
(* AdvancedAIReadingCoach._analyze_reading_fluency, _analyze_prosody and   *)
(* _classify_fluency_level.  Of audio_data the code uses the length only.  *)
(* The floats are exact fractions <<numerator, denominator>>.  The value   *)
(* np.random.uniform(0.6, 0.9) draws is an input of the computation, a     *)
(* number of thousandths in [600, 900).                                    *)
(***************************************************************************)
SampleRate == 16000
target_wpm == 60

RECURSIVE Gcd(_, _)
Gcd(m, n) == IF n = 0 THEN m ELSE Gcd(n, m % n)

\* the fraction num / den in lowest terms (num >= 0, den > 0)
Frac(num, den) == LET g == Gcd(num, den) IN <<num \div g, den \div g>>

FracMin(x, y) == IF x[1] * y[2] <= y[1] * x[2] THEN x ELSE y

\* len(s.split()): a word starts at every non-blank character that is the
\* first of the text or follows a blank
split_length(s) ==
    Cardinality({i \in 1..Len(s) :
                    ~IsSpaceChar(s[i]) /\ (i = 1 \/ IsSpaceChar(s[i - 1]))})
FracGeq(x, y) == x[1] * y[2] >= y[1] * x[2]

analyze_prosody(draw) == Frac(draw, 1000)

\* faulty variant: the lowest level is "developing"
classify_fluency_level_without_beginning(fluency_score) ==
    IF FracGeq(fluency_score, <<9, 10>>) THEN "advanced"
    ELSE IF FracGeq(fluency_score, <<7, 10>>) THEN "proficient"
    ELSE "developing"

\* faulty variant: "developing" starts at 0.6
classify_fluency_level_developing_from_six_tenths(fluency_score) ==
    IF FracGeq(fluency_score, <<9, 10>>) THEN "advanced"
    ELSE IF FracGeq(fluency_score, <<7, 10>>) THEN "proficient"
    ELSE IF FracGeq(fluency_score, <<6, 10>>) THEN "developing"
    ELSE "beginning"

classify_fluency_level(fluency_score) ==
    IF FracGeq(fluency_score, <<9, 10>>) THEN "advanced"
    ELSE IF FracGeq(fluency_score, <<7, 10>>) THEN "proficient"
    ELSE IF FracGeq(fluency_score, <<5, 10>>) THEN "developing"
    ELSE "beginning"

FluencyFallback ==
    [fluency_score |-> <<1, 2>>, reading_speed |-> <<60, 1>>,
     fluency_level |-> "developing"]

\* estimated_duration = max(len(audio_data) / 16000, 1), in seconds
estimated_duration(audio_len) ==
    IF audio_len > SampleRate THEN Frac(audio_len, SampleRate) ELSE <<1, 1>>

analyze_reading_fluency(audio_len, transcribed_text, expected_text, draw) ==
    IF ~IsStr(transcribed_text) \/ ~IsStr(expected_text)
    THEN FluencyFallback    \* .split() raises: the except branch
    ELSE
        LET transcribed_words == split_length(transcribed_text)
            duration == estimated_duration(audio_len)
            wpm == Frac(transcribed_words * duration[2] * 60, duration[1])
            fluency_score == FracMin(Frac(wpm[1], wpm[2] * target_wpm), <<6, 5>>)
            prosody_score == analyze_prosody(draw)
            overall_fluency ==
                Frac(7 * fluency_score[1] * prosody_score[2]
                       + 3 * prosody_score[1] * fluency_score[2],
                     10 * fluency_score[2] * prosody_score[2])
        IN  [fluency_score |-> overall_fluency,
             reading_speed |-> wpm,
             target_speed |-> target_wpm,
             prosody_score |-> prosody_score,
             fluency_level |-> classify_fluency_level(overall_fluency)]

(***************************************************************************)
(* Specification SpecFluency: _analyze_reading_fluency called twice on the *)
(* same arguments.  The transcripts are runs of up to MaxFluencyWords      *)
(* words, the 120-word transcript of the documented scenario and a value   *)
(* that is not a string; the recordings last 0, 0.5, 1, 2 and 60 seconds.  *)
(***************************************************************************)
MaxFluencyWords == 3

\* a transcript of n one-letter words
Spoken(n) == [i \in 1..(2 * n - 1) |-> IF i % 2 = 1 THEN "a" ELSE " "]

FluencyTranscripts ==
    {Spoken(n) : n \in 0..MaxFluencyWords} \cup {Spoken(120), <<"\t", "a", " ">>, NotAString}

AudioLengths == {0, 8000, 16000, 32000, 960000}

ProsodyDraws == {600, 700, 800, 899}

InitFluency ==
    /\ pc = "start"
    /\ audio_data \in AudioLengths
    /\ transcribed \in FluencyTranscripts
    /\ expected \in {<<"a">>, NotAString}
    /\ fluency_analysis = NotRun
    /\ fluency_again = NotRun
    /\ text = NotAString
    /\ normalized = NotAString
    /\ renormalized = NotAString
    /\ accuracy_analysis = NotRun
    /\ values = <<>>
    /\ trend = "not run"
    /\ StoreIdle
    /\ WordwiseIdle
    /\ TimingIdle
    /\ ConnectionIdle

AnalyzeReadingFluency ==
    /\ pc = "start"
    /\ \E draw \in ProsodyDraws :
          fluency_analysis' = analyze_reading_fluency(audio_data, transcribed, expected, draw)
    /\ pc' = "analysed"
    /\ UNCHANGED <<text, normalized, renormalized, expected, transcribed,
                   accuracy_analysis, values, trend, audio_data, fluency_again,
                   store_vars, connection_vars,
                   wordwise_vars, timing_vars>>

AnalyzeReadingFluencyAgain ==
    /\ pc = "analysed"
    /\ \E draw \in ProsodyDraws :
          fluency_again' = analyze_reading_fluency(audio_data, transcribed, expected, draw)
    /\ pc' = "done"
    /\ UNCHANGED <<text, normalized, renormalized, expected, transcribed,
                   accuracy_analysis, values, trend, audio_data, fluency_analysis,
                   store_vars, connection_vars,
                   wordwise_vars, timing_vars>>

NextFluency == AnalyzeReadingFluency \/ AnalyzeReadingFluencyAgain

SpecFluency == InitFluency /\ [][NextFluency]_vars

(***************************************************************************)
(* AdvancedAIReadingCoach._analyze_phonics_patterns over the catalogue of  *)
(* _load_phonics_patterns.  `pattern in expected_word` is the substring    *)
(* test; the counters are local to one call and one category.              *)
(***************************************************************************)
phonics_patterns == <<
    [name |-> "short_vowels", patterns |->
        <<<<"a">>, <<"e">>, <<"i">>, <<"o">>, <<"u">>>>],
    [name |-> "long_vowels", patterns |->
        <<<<"a", "_", "e">>, <<"e", "_", "e">>, <<"i", "_", "e">>,
          <<"o", "_", "e">>, <<"u", "_", "e">>>>],
    [name |-> "consonant_blends", patterns |->
        <<<<"b", "l">>, <<"b", "r">>, <<"c", "l">>, <<"c", "r">>,
          <<"d", "r">>, <<"f", "l">>, <<"f", "r">>, <<"g", "l">>,
          <<"g", "r">>, <<"p", "l">>, <<"p", "r">>, <<"s", "c">>,
          <<"s", "k">>, <<"s", "l">>, <<"s", "m">>, <<"s", "n">>,
          <<"s", "p">>, <<"s", "t">>, <<"s", "w">>, <<"t", "r">>>>],
    [name |-> "digraphs", patterns |->
        <<<<"c", "h">>, <<"s", "h">>, <<"t", "h">>, <<"w", "h">>,
          <<"p", "h">>, <<"c", "k">>, <<"n", "g">>>>],
    [name |-> "vowel_teams", patterns |->
        <<<<"a", "i">>, <<"a", "y">>, <<"e", "a">>, <<"e", "e">>,
          <<"i", "e">>, <<"o", "a">>, <<"o", "w">>, <<"u", "e">>>>],
    [name |-> "r_controlled", patterns |->
        <<<<"a", "r">>, <<"e", "r">>, <<"i", "r">>, <<"o", "r">>,
          <<"u", "r">>>>]>>

\* pattern in word
Contains(word, pattern) ==
    \E k \in 0..(Len(word) - Len(pattern)) :
        SubSeq(word, k + 1, k + Len(pattern)) = pattern

\* zip(expected_words, transcribed_words) stops at the shorter list
ZipLength(expected_words, transcribed_words) ==
    IF Len(expected_words) <= Len(transcribed_words)
    THEN Len(expected_words) ELSE Len(transcribed_words)

PatternsIn(patterns, word) ==
    Cardinality({k \in 1..Len(patterns) : Contains(word, patterns[k])})

\* faulty variant: every word read right counts, whether it holds a pattern
\* or not
correct_count_every_equal_word(patterns, expected_words, transcribed_words) ==
    LET n == ZipLength(expected_words, transcribed_words)
    IN  Cardinality({i \in 1..n : expected_words[i] = transcribed_words[i]})

\* the counter `attempted` after the loops over one category
attempted_count(patterns, expected_words, transcribed_words) ==
    LET n == ZipLength(expected_words, transcribed_words)
    IN  SumOver([i \in 1..n |-> PatternsIn(patterns, expected_words[i])], n)

\* the counter `correct` after the loops over one category
correct_count(patterns, expected_words, transcribed_words) ==
    LET n == ZipLength(expected_words, transcribed_words)
    IN  SumOver([i \in 1..n |->
                    IF expected_words[i] = transcribed_words[i]
                    THEN PatternsIn(patterns, expected_words[i]) ELSE 0], n)

PhonicsFallback == [patterns_attempted |-> <<>>, recommendations |-> <<>>]

analyze_phonics_patterns(transcribed_text, expected_text) ==
    IF ~IsStr(transcribed_text) \/ ~IsStr(expected_text)
    THEN PhonicsFallback    \* .lower() raises: the except branch
    ELSE
        LET expected_words == str_split(str_lower(expected_text))
            transcribed_words == str_split(str_lower(transcribed_text))
            Stat(c) ==
                LET attempted == attempted_count(phonics_patterns[c].patterns,
                                                 expected_words, transcribed_words)
                    correct == correct_count(phonics_patterns[c].patterns,
                                             expected_words, transcribed_words)
                IN  [pattern |-> phonics_patterns[c].name,
                     attempts |-> attempted,
                     correct |-> correct,
                     success_rate |-> IF attempted > 0 THEN Frac(correct, attempted)
                                      ELSE <<0, 1>>]
            stats == [c \in 1..Len(phonics_patterns) |-> Stat(c)]
            attempted_stats == SelectSeq(stats, LAMBDA st : st.attempts > 0)
            Names(sts) == [k \in 1..Len(sts) |-> sts[k].pattern]
            mastered == SelectSeq(attempted_stats,
                                  LAMBDA st : FracGeq(st.success_rate, <<8, 10>>))
            struggling == SelectSeq(attempted_stats,
                                    LAMBDA st : ~FracGeq(st.success_rate, <<5, 10>>))
        IN  [patterns_attempted |-> attempted_stats,
             patterns_mastered |-> Names(mastered),
             patterns_struggling |-> Names(struggling),
             recommendations |-> Names(struggling)]

(***************************************************************************)
(* The phonetic encoder, phonetics.dmetaphone (Double Metaphone), as       *)
(* init_reading_analysis_tools installs it.  It upper-cases the word and   *)
(* walks over it; the rules here are those of the letters A, E, O, B, D,   *)
(* M, N, T, of which the words of the model are made, and the default rule *)
(* for characters that are no letters.  It returns the primary code and    *)
(* the secondary code, the latter '' when it equals the primary one, which *)
(* is the case for all these letters.  A code is a text.                   *)
(***************************************************************************)
\* str.upper() on the letters of the encoder
metaphone_upper(c) ==
    CASE c = "a" -> "A"
      [] c = "b" -> "B"
      [] c = "d" -> "D"
      [] c = "e" -> "E"
      [] c = "m" -> "M"
      [] c = "n" -> "N"
      [] c = "o" -> "O"
      [] c = "t" -> "T"
      [] OTHER -> c

\* the main loop from position pos on: the code added for st[pos] and the
\* number of characters the rule moves forward
RECURSIVE MetaphoneFrom(_, _)
MetaphoneFrom(st, pos) ==
    IF pos > Len(st) THEN <<>>
    ELSE LET ch == st[pos]
             following == IF pos < Len(st) THEN st[pos + 1] ELSE "-"
         IN  CASE ch \in {"A", "E", "O"} ->
                    (IF pos = 1 THEN <<"A">> ELSE <<>>) \o MetaphoneFrom(st, pos + 1)
               [] ch = "B" ->
                    <<"P">> \o MetaphoneFrom(st, IF following = "B" THEN pos + 2 ELSE pos + 1)
               [] ch = "D" ->
                    <<"T">> \o MetaphoneFrom(st, IF following \in {"T", "D"}
                                                 THEN pos + 2 ELSE pos + 1)
               [] ch = "T" ->
                    <<"T">> \o MetaphoneFrom(st, IF following \in {"T", "D"}
                                                 THEN pos + 2 ELSE pos + 1)
               [] ch = "M" ->
                    <<"M">> \o MetaphoneFrom(st, IF following = "M" THEN pos + 2 ELSE pos + 1)
               [] ch = "N" ->
                    <<"N">> \o MetaphoneFrom(st, IF following = "N" THEN pos + 2 ELSE pos + 1)
               [] OTHER -> MetaphoneFrom(st, pos + 1)

\* self.phonetic_encoder(word): <<primary, secondary>>
phonetic_encoder(word) ==
    LET pri == MetaphoneFrom([i \in 1..Len(word) |-> metaphone_upper(word[i])], 1)
        sec == pri
    IN  IF pri = sec THEN <<pri, <<>>>> ELSE <<pri, sec>>

(***************************************************************************)
(* AdvancedAIReadingCoach._calculate_phonetic_similarity.  Its arguments   *)
(* are tuples of codes; an argument that cannot be iterated is the value   *)
(* NotATuple, on which zip raises and the except branch returns 0.0.       *)
(***************************************************************************)
NotATuple == <<<<"<not a tuple>">>>>

\* the positions of zip(phonetic1, phonetic2) at which both codes are truthy
BothPresent(phonetic1_, phonetic2_) ==
    {k \in 1..ZipLength(phonetic1_, phonetic2_) :
        phonetic1_[k] # <<>> /\ phonetic2_[k] # <<>>}

\* faulty variant: every zipped position counts in the total
calculate_phonetic_similarity_over_all_positions(phonetic1_, phonetic2_) ==
    IF phonetic1_ = NotATuple \/ phonetic2_ = NotATuple THEN <<0, 1>>
    ELSE LET total == ZipLength(phonetic1_, phonetic2_)
             matches == Cardinality({k \in BothPresent(phonetic1_, phonetic2_) :
                                        phonetic1_[k] = phonetic2_[k]})
         IN  IF total > 0 THEN Frac(matches, total) ELSE <<0, 1>>

calculate_phonetic_similarity(phonetic1_, phonetic2_) ==
    IF phonetic1_ = NotATuple \/ phonetic2_ = NotATuple THEN <<0, 1>>
    ELSE LET total == Cardinality(BothPresent(phonetic1_, phonetic2_))
             matches == Cardinality({k \in BothPresent(phonetic1_, phonetic2_) :
                                        phonetic1_[k] = phonetic2_[k]})
         IN  IF total > 0 THEN Frac(matches, total) ELSE <<0, 1>>

(***************************************************************************)
(* AdvancedAIReadingCoach._analyze_pronunciation and                       *)
(* _generate_pronunciation_feedback.  The words are those of               *)
(* .lower().split(), paired by zip; the feedback sentence is the record of *)
(* its kind and of the texts it quotes.                                    *)
(***************************************************************************)
generate_pronunciation_feedback(expected_word, pronounced_word) ==
    IF Len(expected_word) # Len(pronounced_word)
    THEN [advice |-> IF Len(expected_word) > Len(pronounced_word)
                     THEN "pronounce all the sounds" ELSE "say it more simply",
          word |-> expected_word]
    ELSE LET different_positions ==
                 {i \in 1..Len(expected_word) : expected_word[i] # pronounced_word[i]}
         IN  IF different_positions # {}
             THEN LET pos == CHOOSE i \in different_positions :
                                 \A j \in different_positions : i <= j
                  IN  [advice |-> "focus on the sound",
                       sound |-> expected_word[pos],
                       word |-> expected_word,
                       pronounced_word |-> pronounced_word]
             ELSE [advice |-> "keep practicing", word |-> expected_word]

\* faulty variant: the share of the words with an issue
pronunciation_issue_rate(issue_count, word_count) ==
    LET total == IF word_count > 1 THEN word_count ELSE 1
    IN  Frac(issue_count, total)

\* 1.0 - (len(pronunciation_issues) / max(len(expected_words), 1))
pronunciation_score_of(issue_count, word_count) ==
    LET total == IF word_count > 1 THEN word_count ELSE 1
    IN  Frac(total - issue_count, total)

PronunciationFallback ==
    [pronunciation_score |-> <<7, 10>>, pronunciation_issues |-> <<>>,
     phonetic_feedback |-> <<>>]

analyze_pronunciation(transcribed_text, expected_text) ==
    IF ~IsStr(transcribed_text) \/ ~IsStr(expected_text)
    THEN PronunciationFallback    \* .lower() raises: the except branch
    ELSE
        LET transcribed_words == str_split(str_lower(transcribed_text))
            expected_words == str_split(str_lower(expected_text))
            n == ZipLength(expected_words, transcribed_words)
            Similarity(i) ==
                calculate_phonetic_similarity(phonetic_encoder(expected_words[i]),
                                              phonetic_encoder(transcribed_words[i]))
            flagged == SelectSeq([i \in 1..n |-> i],
                           LAMBDA i : /\ expected_words[i] # transcribed_words[i]
                                      /\ ~FracGeq(<<1, 2>>, Similarity(i)))
        IN  [pronunciation_score |->
                pronunciation_score_of(Len(flagged), Len(expected_words)),
             pronunciation_issues |->
                [k \in 1..Len(flagged) |->
                    [word |-> expected_words[flagged[k]],
                     pronounced_as |-> transcribed_words[flagged[k]],
                     phonetic_similarity |-> Similarity(flagged[k]),
                     position |-> flagged[k] - 1]],
             phonetic_feedback |->
                [k \in 1..Len(flagged) |->
                    generate_pronunciation_feedback(expected_words[flagged[k]],
                                                    transcribed_words[flagged[k]])]]

(***************************************************************************)
(* The session store: _store_reading_session, _update_reading_goals and    *)
(* track_reading_progress on the one connection self.conn.  A row of       *)
(* reading_sessions holds the columns the progress query and the phonics   *)
(* analysis read (id, child_id, text_read, transcription, accuracy_score,  *)
(* fluency_score, reading_speed); the same INSERT writes the remaining     *)
(* columns.  All sessions are younger than the `days` of the progress      *)
(* query.                                                                  *)
(***************************************************************************)
SessionRow(id, child_id, analysis_results) ==
    [id |-> id,
     child_id |-> child_id,
     text_read |-> analysis_results.expected_text,
     transcription |-> analysis_results.transcription,
     accuracy_score |-> analysis_results.accuracy_score,
     fluency_score |-> analysis_results.fluency_score,
     reading_speed |-> analysis_results.reading_speed]

\* the rows after _store_reading_session; an exception of the INSERT is
\* printed and not raised again
store_reading_session(sessions, child_id, analysis_results, outcome) ==
    IF outcome = "insert fails" THEN sessions
    ELSE Append(sessions, SessionRow(Len(sessions) + 1, child_id, analysis_results))

\* the rows of reading_goals after the two UPDATE statements
update_reading_goals(goals, child_id, analysis_results) ==
    [g \in 1..Len(goals) |->
        IF goals[g].child_id = child_id /\ goals[g].status = "active"
           /\ goals[g].goal_type \in {"accuracy", "fluency"}
        THEN [goals[g] EXCEPT !.current_value =
                 IF goals[g].goal_type = "accuracy"
                 THEN analysis_results.accuracy_score
                 ELSE analysis_results.fluency_score]
        ELSE goals[g]]

\* a score as an integer number of hundredths (the scores of the modelled
\* readings are whole hundredths)
Hundredths(x) == (100 * x[1]) \div x[2]

\* [s[k] for s in sessions if s[k]]: None and 0 are left out
TruthyScores(sessions, column) ==
    LET scores == [i \in 1..Len(sessions) |-> Hundredths(sessions[i][column])]
    IN  SelectSeq(scores, LAMBDA y : y # 0)

\* the signs the rounding error of one slope computation can matter with:
\* away from the two thresholds it decides nothing
RoundingSigns(ys) ==
    IF Len(ys) >= 2 /\ trend_slope(ys)[1] \in {trend_slope(ys)[2], -trend_slope(ys)[2]}
    THEN {-1, 0, 1} ELSE {0}

NoRecentSessions ==
    [success |-> TRUE, message |-> "No recent reading sessions found",
     sessions_completed |-> 0]

\* the dict track_reading_progress returns for the rows of one learner, in
\* the order of the query; the percentages and the goals of the dict are
\* left out
track_reading_progress(sessions, roundings) ==
    IF sessions = <<>> THEN NoRecentSessions
    ELSE
        LET last == sessions[Len(sessions)]
        IN  [success |-> TRUE,
             progress |->
                [sessions_completed |-> Len(sessions),
                 accuracy_trend |->
                    calculate_trend(TruthyScores(sessions, "accuracy_score"), roundings[1]),
                 fluency_trend |->
                    calculate_trend(TruthyScores(sessions, "fluency_score"), roundings[2]),
                 speed_trend |->
                    calculate_trend(TruthyScores(sessions, "reading_speed"), roundings[3]),
                 current_accuracy |-> last.accuracy_score,
                 current_fluency |-> last.fluency_score,
                 current_speed |-> last.reading_speed,
                 reading_level |-> 1]]

SessionsOf(sessions, child_id) ==
    SelectSeq(sessions, LAMBDA row : row.child_id = child_id)

(***************************************************************************)
(* analyze_reading_comprehensive: the analyses of one reading attempt, in  *)
(* the order of the code.  The pronunciation analysis and the feedback     *)
(* fill columns of the row that no query of the class reads.               *)
(***************************************************************************)
analysis_results_of(audio_len, transcribed_text, expected_text, draw) ==
    LET accuracy == analyze_reading_accuracy(transcribed_text, expected_text)
        fluency == analyze_reading_fluency(audio_len, transcribed_text, expected_text, draw)
        phonics == analyze_phonics_patterns(transcribed_text, expected_text)
    IN  [transcription |-> transcribed_text,
         expected_text |-> expected_text,
         accuracy_score |-> accuracy.accuracy_score,
         mistakes |-> accuracy.mistakes,
         fluency_score |-> fluency.fluency_score,
         reading_speed |-> fluency.reading_speed,
         fluency_level |-> fluency.fluency_level,
         phonics_analysis |-> phonics]

(***************************************************************************)
(* Specification SpecSessions: calls of analyze_reading_comprehensive,     *)
(* track_reading_progress and generate_adaptive_phonics_exercise, one      *)
(* after the other, for two learners.  A reading attempt is a recording of *)
(* two seconds of the passage "the cat" that Whisper transcribes as the    *)
(* passage, as "the dog" or as nothing, or fails to transcribe; a child    *)
(* profile may lack its id; the INSERT, the UPDATE and the SELECT may      *)
(* raise.                                                                  *)
(***************************************************************************)
MaxStoredSessions == 3

Children == {"child1", "child2"}
NoId == "<no id>"

Passage == Written("plain", <<The, Cat>>)

Transcriptions ==
    {Written("plain", <<The, Cat>>), Written("plain", <<The, Dog>>), <<>>}

\* what the analyses of lines 203-226 return for the attempts: Whisper's
\* text and the value np.random.uniform draws vary
AnalysedAttempts ==
    {analysis_results_of(2 * SampleRate, transcribed_text, Passage, draw) :
        transcribed_text \in Transcriptions, draw \in {600, 700}}

\* faulty variant: the failure of the transcription is returned as a success
TranscriptionFailedAsSuccess == [success |-> TRUE, error |-> "Transcription failed"]

TranscriptionFailed == [success |-> FALSE, error |-> "Transcription failed"]
AnalysisFailed == [success |-> FALSE, error |-> "Comprehensive reading analysis failed"]

InitSessions ==
    /\ pc = "serving"
    /\ StoreIdle
    /\ WordwiseIdle
    /\ TimingIdle
    /\ ConnectionIdle
    /\ FluencyIdle
    /\ text = NotAString
    /\ normalized = NotAString
    /\ renormalized = NotAString
    /\ expected = NotAString
    /\ transcribed = NotAString
    /\ accuracy_analysis = NotRun
    /\ values = <<>>
    /\ trend = "not run"

\* Whisper fails: the dict of _transcribe_with_whisper is returned
TranscriptionFails ==
    /\ \E child_id \in Children :
          request' = [op |-> "analyze_reading_comprehensive", child_id |-> child_id]
    /\ response' = TranscriptionFailed
    /\ UNCHANGED <<pc, analysis_vars, connection_vars, reading_sessions, reading_goals,
                   phonics_progress>>

\* child_profile['id'] raises KeyError after the analyses: the outer except
ProfileWithoutId ==
    /\ request' = [op |-> "analyze_reading_comprehensive", child_id |-> NoId]
    /\ response' = AnalysisFailed
    /\ UNCHANGED <<pc, analysis_vars, connection_vars, reading_sessions, reading_goals,
                   phonics_progress>>

AnalyzeReadingComprehensive ==
    /\ Len(reading_sessions) < MaxStoredSessions
    /\ \E child_id \in Children, analysis_results \in AnalysedAttempts :
              /\ \E store \in {"stored", "insert fails"} :
                    reading_sessions' =
                        store_reading_session(reading_sessions, child_id,
                                              analysis_results, store)
              /\ \E goals \in {"updated", "update fails"} :
                    reading_goals' =
                        IF goals = "updated"
                        THEN update_reading_goals(reading_goals, child_id,
                                                  analysis_results)
                        ELSE reading_goals
              /\ request' = [op |-> "analyze_reading_comprehensive",
                             child_id |-> child_id]
              /\ response' = [success |-> TRUE, results |-> analysis_results]
    /\ UNCHANGED <<pc, analysis_vars, connection_vars, phonics_progress>>

TrackReadingProgress ==
    /\ \E child_id \in Children :
          LET sessions == SessionsOf(reading_sessions, child_id)
          IN  /\ request' = [op |-> "track_reading_progress", child_id |-> child_id]
              /\ \/ response' = [success |-> FALSE, error |-> "query failed"]
                 \/ \E r1 \in RoundingSigns(TruthyScores(sessions, "accuracy_score")),
                       r2 \in RoundingSigns(TruthyScores(sessions, "fluency_score")),
                       r3 \in RoundingSigns(TruthyScores(sessions, "reading_speed")) :
                       response' = track_reading_progress(sessions, <<r1, r2, r3>>)
    /\ UNCHANGED <<pc, analysis_vars, connection_vars, reading_sessions, reading_goals,
                   phonics_progress>>

\* the patterns generate_adaptive_phonics_exercise selects for a learner of
\* reading level 2 with no focus patterns
target_patterns(progress_data) ==
    IF progress_data # <<>>
    THEN [k \in 1..(IF Len(progress_data) < 2 THEN Len(progress_data) ELSE 2) |->
             progress_data[k].phonics_pattern]
    ELSE <<"short_vowels", "consonant_blends">>

GenerateAdaptivePhonicsExercise ==
    /\ \E child_id \in Children :
          /\ request' = [op |-> "generate_adaptive_phonics_exercise",
                         child_id |-> child_id]
          /\ response' =
                [success |-> TRUE,
                 target_patterns |->
                    target_patterns(SelectSeq(phonics_progress,
                                              LAMBDA row : row.child_id = child_id))]
    /\ UNCHANGED <<pc, analysis_vars, connection_vars, reading_sessions, reading_goals,
                   phonics_progress>>

NextSessions ==
    \/ TranscriptionFails
    \/ ProfileWithoutId
    \/ AnalyzeReadingComprehensive
    \/ TrackReadingProgress
    \/ GenerateAdaptivePhonicsExercise

SpecSessions == InitSessions /\ [][NextSessions]_vars

(***************************************************************************)
(* Specification SpecConcurrent: threads of the server inside              *)
(* _store_reading_session and track_reading_progress at the same time, on  *)
(* the one connection that init_database opens with                        *)
(* check_same_thread=False; no lock guards it.  cursor.execute of an       *)
(* INSERT tests whether the connection is in autocommit mode and, if so,   *)
(* runs BEGIN before the statement; conn.commit tests the same flag and    *)
(* runs COMMIT.  The sqlite3 module releases the interpreter lock between  *)
(* the test and the statement, so the steps of two threads interleave; the *)
(* statements themselves are atomic.  BEGIN inside a transaction and       *)
(* COMMIT outside one raise sqlite3.OperationalError, which the except     *)
(* branch of _store_reading_session prints.                                *)
(***************************************************************************)
MaxWorkers == 2

Workers == 1..MaxWorkers

StoreJobs ==
    [child_id : Children,
     analysis_results :
        {analysis_results_of(2 * SampleRate, transcribed_text, Passage, 600) :
            transcribed_text \in {Written("plain", <<The, Cat>>), <<>>}}]

InitConcurrent ==
    /\ pc = "serving"
    /\ StoreIdle
    /\ WordwiseIdle
    /\ TimingIdle
    /\ FluencyIdle
    /\ text = NotAString
    /\ normalized = NotAString
    /\ renormalized = NotAString
    /\ expected = NotAString
    /\ transcribed = NotAString
    /\ accuracy_analysis = NotRun
    /\ values = <<>>
    /\ trend = "not run"
    /\ in_transaction = FALSE
    /\ worker_job \in [Workers -> StoreJobs]
    /\ worker_pc = [w \in Workers |-> "execute"]
    /\ observed = <<>>

\* cursor.execute, first half: an INSERT outside a transaction needs BEGIN
ExecuteTestsAutocommit(w) ==
    /\ worker_pc[w] = "execute"
    /\ worker_pc' = [worker_pc EXCEPT ![w] =
                        IF in_transaction THEN "insert" ELSE "begin"]
    /\ UNCHANGED <<pc, analysis_vars, store_vars, in_transaction, worker_job, observed>>

\* BEGIN; inside a transaction it raises and the except branch returns
Begin(w) ==
    /\ worker_pc[w] = "begin"
    /\ in_transaction' = TRUE
    /\ worker_pc' = [worker_pc EXCEPT ![w] =
                        IF in_transaction THEN "returned" ELSE "insert"]
    /\ UNCHANGED <<pc, analysis_vars, store_vars, worker_job, observed>>

\* the INSERT statement
Insert(w) ==
    /\ worker_pc[w] = "insert"
    /\ reading_sessions' =
          store_reading_session(reading_sessions, worker_job[w].child_id,
                                worker_job[w].analysis_results, "stored")
    /\ worker_pc' = [worker_pc EXCEPT ![w] = "commit"]
    /\ UNCHANGED <<pc, analysis_vars, reading_goals, phonics_progress, request,
                   response, in_transaction, worker_job, observed>>

\* self.conn.commit(), first half: nothing to do in autocommit mode
CommitTestsAutocommit(w) ==
    /\ worker_pc[w] = "commit"
    /\ worker_pc' = [worker_pc EXCEPT ![w] =
                        IF in_transaction THEN "committing" ELSE "returned"]
    /\ UNCHANGED <<pc, analysis_vars, store_vars, in_transaction, worker_job, observed>>

\* COMMIT; outside a transaction it raises and the except branch returns
Commit(w) ==
    /\ worker_pc[w] = "committing"
    /\ in_transaction' = FALSE
    /\ worker_pc' = [worker_pc EXCEPT ![w] = "returned"]
    /\ UNCHANGED <<pc, analysis_vars, store_vars, worker_job, observed>>

\* the SELECT of track_reading_progress and its fetchall, for one learner
FetchSessions ==
    /\ \E child_id \in Children :
          observed' = SessionsOf(reading_sessions, child_id)
    /\ UNCHANGED <<pc, analysis_vars, store_vars, in_transaction, worker_job, worker_pc>>

NextConcurrent ==
    \/ \E w \in Workers : ExecuteTestsAutocommit(w)
    \/ \E w \in Workers : Begin(w)
    \/ \E w \in Workers : Insert(w)
    \/ \E w \in Workers : CommitTestsAutocommit(w)
    \/ \E w \in Workers : Commit(w)
    \/ FetchSessions

SpecConcurrent == InitConcurrent /\ [][NextConcurrent]_vars

(***************************************************************************)
(* Specification SpecSimilarity: one call of                               *)
(* _calculate_phonetic_similarity on two tuples of up to MaxCodes codes    *)
(* (dmetaphone returns two; zip accepts any number), a code being absent   *)
(* ('') or one of two codes, or on a value that is no tuple.               *)
(***************************************************************************)
MaxCodes == 2

RECURSIVE CodeTuplesUpTo(_)
CodeTuplesUpTo(n) ==
    IF n = 0 THEN {<<>>}
    ELSE LET shorter == CodeTuplesUpTo(n - 1)
         IN  shorter \cup {Append(t, c) : t \in shorter,
                                           c \in {<<>>, <<"P", "T">>, <<"M", "T">>}}

InitSimilarity ==
    /\ pc = "start"
    /\ phonetic1 \in CodeTuplesUpTo(MaxCodes) \cup {NotATuple}
    /\ phonetic2 \in CodeTuplesUpTo(MaxCodes) \cup {NotATuple}
    /\ phonetic_similarity = NotRun
    /\ pronunciation_analysis = NotRun
    /\ phonics_analysis = NotRun
    /\ text = NotAString
    /\ normalized = NotAString
    /\ renormalized = NotAString
    /\ expected = NotAString
    /\ transcribed = NotAString
    /\ accuracy_analysis = NotRun
    /\ values = <<>>
    /\ trend = "not run"
    /\ FluencyIdle
    /\ StoreIdle
    /\ TimingIdle
    /\ ConnectionIdle

CalculatePhoneticSimilarity ==
    /\ pc = "start"
    /\ phonetic_similarity' = calculate_phonetic_similarity(phonetic1, phonetic2)
    /\ pc' = "done"
    /\ UNCHANGED <<text, normalized, renormalized, expected, transcribed,
                   accuracy_analysis, values, trend, fluency_vars, store_vars,
                   connection_vars, timing_vars, pronunciation_analysis,
                   phonics_analysis, phonetic1, phonetic2>>

NextSimilarity == CalculatePhoneticSimilarity

SpecSimilarity == InitSimilarity /\ [][NextSimilarity]_vars

(***************************************************************************)
(* Specification SpecAttempt: one call of analyze_reading_comprehensive,   *)
(* statement by statement.  The passage has up to MaxAttemptWords words    *)
(* out of "bat", "bad" and "boat", written plainly or in title case with   *)
(* punctuation; Whisper returns up to one word more than that, or fails;   *)
(* the recording lasts two seconds; the child profile may lack its id.     *)
(* The database file holds the reading goals that other programs wrote     *)
(* into it (the class has no INSERT for them), or none.                    *)
(***************************************************************************)
MaxAttemptWords == 2

AttemptVocabulary == {<<"b", "a", "t">>, <<"b", "a", "d">>, <<"b", "o", "a", "t">>}

AttemptPassages ==
    {Written(style, ws) : style \in {"plain", "titled"},
                          ws \in WordListsUpTo(AttemptVocabulary, MaxAttemptWords)}

AttemptTranscriptions ==
    {Written("plain", ws) : ws \in WordListsUpTo(AttemptVocabulary, MaxAttemptWords + 1)}

\* rows of reading_goals
GoalRow(id, child_id, goal_type, status) ==
    [id |-> id, child_id |-> child_id, goal_type |-> goal_type,
     target_value |-> <<9, 10>>, current_value |-> <<0, 1>>, status |-> status]

StoredGoals ==
    <<GoalRow(1, "child1", "accuracy", "active"),
      GoalRow(2, "child1", "fluency", "active"),
      GoalRow(3, "child1", "accuracy", "completed"),
      GoalRow(4, "child2", "fluency", "active")>>

\* the variables no statement of the call touches
attempt_frame ==
    <<text, normalized, renormalized, values, trend, fluency_again,
      phonetic1, phonetic2, phonetic_similarity, timing_vars,
      phonics_progress, connection_vars>>

\* the dict analysis_results after the four update() calls
analysis_results_so_far ==
    [transcription |-> transcribed,
     expected_text |-> expected,
     accuracy_score |-> accuracy_analysis.accuracy_score,
     word_accuracy |-> accuracy_analysis.word_accuracy,
     total_words |-> accuracy_analysis.total_words,
     mistakes |-> accuracy_analysis.mistakes,
     fluency_score |-> fluency_analysis.fluency_score,
     reading_speed |-> fluency_analysis.reading_speed,
     fluency_level |-> fluency_analysis.fluency_level,
     pronunciation_score |-> pronunciation_analysis.pronunciation_score,
     pronunciation_issues |-> pronunciation_analysis.pronunciation_issues,
     phonics_analysis |-> phonics_analysis]

InitAttempt ==
    /\ pc = "idle"
    /\ reading_sessions = <<>>
    /\ reading_goals \in {<<>>, StoredGoals}
    /\ phonics_progress = <<>>
    /\ request = [op |-> "none"]
    /\ response = NotRun
    /\ expected = NotAString
    /\ transcribed = NotAString
    /\ accuracy_analysis = NotRun
    /\ text = NotAString
    /\ normalized = NotAString
    /\ renormalized = NotAString
    /\ values = <<>>
    /\ trend = "not run"
    /\ FluencyIdle
    /\ WordwiseIdle
    /\ TimingIdle
    /\ ConnectionIdle

\* lines 182-200: the audio is decoded and handed to Whisper; a failure of
\* the transcription is returned as it is
TranscribeWithWhisper ==
    /\ pc = "idle"
    /\ request.op = "none"
    /\ \E child_id \in {"child1", NoId}, expected_text \in AttemptPassages :
          /\ request' = [op |-> "analyze_reading_comprehensive", child_id |-> child_id]
          /\ expected' = expected_text
    /\ audio_data' = 2 * SampleRate
    /\ \/ /\ transcribed' \in AttemptTranscriptions
          /\ pc' = "transcribed"
          /\ UNCHANGED response
       \/ /\ transcribed' = NotAString
          /\ pc' = "idle"
          /\ response' = TranscriptionFailed
    /\ UNCHANGED <<accuracy_analysis, fluency_analysis, pronunciation_analysis,
                   phonics_analysis, reading_sessions, reading_goals, attempt_frame>>

\* lines 209-210
AttemptAccuracy ==
    /\ pc = "transcribed"
    /\ accuracy_analysis' = analyze_reading_accuracy(transcribed, expected)
    /\ pc' = "accuracy"
    /\ UNCHANGED <<expected, transcribed, audio_data, fluency_analysis,
                   pronunciation_analysis, phonics_analysis, reading_sessions,
                   reading_goals, request, response, attempt_frame>>

\* lines 213-214
AttemptFluency ==
    /\ pc = "accuracy"
    /\ \E draw \in {600, 700} :
          fluency_analysis' = analyze_reading_fluency(audio_data, transcribed, expected, draw)
    /\ pc' = "fluency"
    /\ UNCHANGED <<expected, transcribed, audio_data, accuracy_analysis,
                   pronunciation_analysis, phonics_analysis, reading_sessions,
                   reading_goals, request, response, attempt_frame>>

\* lines 217-218
AttemptPronunciation ==
    /\ pc = "fluency"
    /\ pronunciation_analysis' = analyze_pronunciation(transcribed, expected)
    /\ pc' = "pronunciation"
    /\ UNCHANGED <<expected, transcribed, audio_data, accuracy_analysis,
                   fluency_analysis, phonics_analysis, reading_sessions,
                   reading_goals, request, response, attempt_frame>>

\* lines 221-222
AttemptPhonics ==
    /\ pc = "pronunciation"
    /\ phonics_analysis' = analyze_phonics_patterns(transcribed, expected)
    /\ pc' = "phonics"
    /\ UNCHANGED <<expected, transcribed, audio_data, accuracy_analysis,
                   fluency_analysis, pronunciation_analysis, reading_sessions,
                   reading_goals, request, response, attempt_frame>>

\* lines 225-226: _generate_comprehensive_feedback returns a dict whatever
\* the language model answers; no query of the class reads it
AttemptFeedback ==
    /\ pc = "phonics"
    /\ pc' = "feedback"
    /\ UNCHANGED <<expected, transcribed, audio_data, accuracy_analysis,
                   fluency_analysis, pronunciation_analysis, phonics_analysis,
                   reading_sessions, reading_goals, request, response, attempt_frame>>

\* line 229: child_profile['id'] raises KeyError for a profile without id,
\* which the outer except turns into the failure dict
AttemptStore ==
    /\ pc = "feedback"
    /\ IF request.child_id = NoId
       THEN /\ response' = AnalysisFailed
            /\ pc' = "idle"
            /\ UNCHANGED reading_sessions
       ELSE /\ \E store \in {"stored", "insert fails"} :
                  reading_sessions' =
                      store_reading_session(reading_sessions, request.child_id,
                                            analysis_results_so_far, store)
            /\ pc' = "stored"
            /\ UNCHANGED response
    /\ UNCHANGED <<expected, transcribed, audio_data, accuracy_analysis,
                   fluency_analysis, pronunciation_analysis, phonics_analysis,
                   reading_goals, request, attempt_frame>>

\* line 232
AttemptGoals ==
    /\ pc = "stored"
    /\ \E goals \in {"updated", "update fails"} :
          reading_goals' =
              IF goals = "updated"
              THEN update_reading_goals(reading_goals, request.child_id,
                                        analysis_results_so_far)
              ELSE reading_goals
    /\ pc' = "updated"
    /\ UNCHANGED <<expected, transcribed, audio_data, accuracy_analysis,
                   fluency_analysis, pronunciation_analysis, phonics_analysis,
                   reading_sessions, request, response, attempt_frame>>

\* lines 234-237
AttemptReturn ==
    /\ pc = "updated"
    /\ response' = [success |-> TRUE, results |-> analysis_results_so_far]
    /\ pc' = "idle"
    /\ UNCHANGED <<expected, transcribed, audio_data, accuracy_analysis,
                   fluency_analysis, pronunciation_analysis, phonics_analysis,
                   reading_sessions, reading_goals, request, attempt_frame>>

NextAttempt ==
    \/ TranscribeWithWhisper
    \/ AttemptAccuracy
    \/ AttemptFluency
    \/ AttemptPronunciation
    \/ AttemptPhonics
    \/ AttemptFeedback
    \/ AttemptStore
    \/ AttemptGoals
    \/ AttemptReturn

SpecAttempt == InitAttempt /\ [][NextAttempt]_vars

(***************************************************************************)
(* AIReadingCoach._calculate_fluency_score (src/backend/ai_reading_coach.py)*)
(* on the word timestamps of a transcript.  Times are whole tenths of a    *)
(* second.  With n pauses of sum S and sum of squares Q, np.std / np.mean  *)
(* is sqrt(n * Q - S * S) / S, so the float returned is                    *)
(*   (1 + ideal_pause_score) / 2 - sqrt((n * Q - S * S) / (4 * S * S)),    *)
(* kept as the record of the two fractions `whole` and `root`: the value   *)
(* is whole - sqrt(root).                                                  *)
(***************************************************************************)
\* the pauses between consecutive words
pauses_of(timestamps) ==
    [i \in 1..(Len(timestamps) - 1) |-> timestamps[i + 1].start - timestamps[i].end]

\* max(0, 1 - abs(average_pause - 0.2) / 0.2) for n pauses of sum S tenths
ideal_pause_score(n, S) ==
    LET distance == IF S >= 2 * n THEN S - 2 * n ELSE 2 * n - S
    IN  IF distance >= 2 * n THEN <<0, 1>> ELSE Frac(2 * n - distance, 2 * n)

calculate_fluency_score(timestamps) ==
    IF Len(timestamps) < 2 THEN [whole |-> <<1, 2>>, root |-> <<0, 1>>]
    ELSE
        LET pauses == pauses_of(timestamps)
            n == Len(pauses)
            S == SumOver(pauses, n)
            Q == SumOver([i \in 1..n |-> pauses[i] * pauses[i]], n)
            ideal == ideal_pause_score(n, S)
        IN  IF S > 0
            THEN [whole |-> Frac(ideal[2] + ideal[1], 2 * ideal[2]),
                  root |-> Frac(n * Q - S * S, 4 * S * S)]
            ELSE [whole |-> Frac(ideal[1], 2 * ideal[2]), root |-> <<0, 1>>]

(***************************************************************************)
(* Specification SpecTimestamps: one call of _calculate_fluency_score on   *)
(* the timestamps of up to MaxTimedWords words, each 0.3 seconds long,     *)
(* with pauses of 0, 0.1, 0.2 or 1 second between them.                    *)
(***************************************************************************)
MaxTimedWords == 4

RECURSIVE PausesUpTo(_)
PausesUpTo(n) ==
    IF n = 0 THEN {<<>>}
    ELSE LET shorter == PausesUpTo(n - 1)
         IN  shorter \cup {Append(ps, p) : ps \in shorter, p \in {0, 1, 2, 10}}

\* the timestamps of Len(pauses) + 1 words
Timed(pauses) ==
    [i \in 1..(Len(pauses) + 1) |->
        LET start == 3 * (i - 1) + SumOver(pauses, i - 1)
        IN  [start |-> start, end |-> start + 3]]

InitTimestamps ==
    /\ pc = "start"
    /\ word_timestamps \in
          {<<>>} \cup {Timed(pauses) : pauses \in PausesUpTo(MaxTimedWords - 1)}
    /\ timestamp_fluency = NotRun
    /\ text = NotAString
    /\ normalized = NotAString
    /\ renormalized = NotAString
    /\ expected = NotAString
    /\ transcribed = NotAString
    /\ accuracy_analysis = NotRun
    /\ values = <<>>
    /\ trend = "not run"
    /\ FluencyIdle
    /\ WordwiseIdle
    /\ StoreIdle
    /\ ConnectionIdle

CalculateFluencyScore ==
    /\ pc = "start"
    /\ timestamp_fluency' = calculate_fluency_score(word_timestamps)
    /\ pc' = "done"
    /\ UNCHANGED <<text, normalized, renormalized, expected, transcribed,
                   accuracy_analysis, values, trend, fluency_vars, wordwise_vars,
                   store_vars, connection_vars, word_timestamps>>

NextTimestamps == CalculateFluencyScore

SpecTimestamps == InitTimestamps /\ [][NextTimestamps]_vars

(***************************************************************************)
(* Properties of the accuracy analysis (SpecAccuracy).                     *)
(***************************************************************************)
Analysed == pc = "done" /\ IsStr(expected) /\ IsStr(transcribed)

\* the word lists the analysis compares
ExpectedWords == str_split(normalize_text(expected))
TranscribedWords == str_split(normalize_text(transcribed))

Score == accuracy_analysis.accuracy_score

FracEq(x, y) == x[1] * y[2] = y[1] * x[2]
FracLeq(x, y) == x[1] * y[2] <= y[1] * x[2]

WordsOf(ws) == {ws[i] : i \in 1..Len(ws)}

InsertAt(ws, p, w) == SubSeq(ws, 1, p) \o <<w>> \o SubSeq(ws, p + 1, Len(ws))
RemoveAt(ws, p) == SubSeq(ws, 1, p - 1) \o SubSeq(ws, p + 1, Len(ws))

\* the number of reference words inside the mistakes of one type
RECURSIVE ReferenceWordsIn(_, _)
ReferenceWordsIn(mistakes, type) ==
    IF mistakes = <<>> THEN 0
    ELSE (IF Head(mistakes).type = type
          THEN Len(str_split(Head(mistakes).expected)) ELSE 0)
         + ReferenceWordsIn(Tail(mistakes), type)

MatchedWordCount ==
    Len(ExpectedWords)
    - ReferenceWordsIn(accuracy_analysis.mistakes, "substitution")
    - ReferenceWordsIn(accuracy_analysis.mistakes, "omission")

\* C1: whatever the two arguments are (empty texts and the except branch
\* included), the accuracy score returned lies in [0, 1].
AccuracyInUnitInterval ==
    pc = "done" => /\ Score[2] > 0
                   /\ 0 <= Score[1]
                   /\ Score[1] <= Score[2]

\* C1 witness: an analysis whose score is strictly between 0 and 1.
AccuracyStrictlyInside ==
    /\ Analysed
    /\ accuracy_analysis.mistakes # <<>>
    /\ 0 < Score[1]
    /\ Score[1] < Score[2]

\* C2: when the transcript has the words of a non-empty reference, in the
\* same order, the accuracy is exactly 1.0 and no mistake is reported.
IdentityIsPerfect ==
    (Analysed /\ ExpectedWords # <<>> /\ TranscribedWords = ExpectedWords)
        => /\ FracEq(Score, <<1, 1>>)
           /\ accuracy_analysis.mistakes = <<>>

\* C2 witness: a reference analysed against a transcript that differs from
\* it as a text and is equal to it word for word after normalisation.
IdenticalAfterNormalisation ==
    /\ Analysed
    /\ expected # transcribed
    /\ Len(ExpectedWords) >= 2
    /\ TranscribedWords = ExpectedWords

InsertionNeverRaisesAccuracy ==
    Analysed =>
        \A p \in 0..Len(ExpectedWords) : \A w \in TranscribedVocabulary :
            TranscribedWords = InsertAt(ExpectedWords, p, w)
                => FracLeq(Score,
                           analyze_reading_accuracy(expected, expected).accuracy_score)

\* C4 witness: a reference of two words or more read with the word "c",
\* which it does not hold, put in, and scored below 1.0.
WrongWordInserted ==
    /\ Analysed
    /\ Len(ExpectedWords) >= 2
    /\ \E p \in 0..Len(ExpectedWords) :
           TranscribedWords = InsertAt(ExpectedWords, p, <<"c">>)
    /\ Score[1] < Score[2]

\* C5: when the transcript is an n-word reference with the word at one
\* index p replaced by a word the reference does not hold, the mistakes are
\* exactly one substitution with expected = the reference word, actual =
\* the word said and position = p, and the accuracy is (n-1)/n.
SingleSubstitutionReported ==
    Analysed =>
        \A p \in 1..Len(ExpectedWords) :
            (/\ Len(TranscribedWords) = Len(ExpectedWords)
             /\ TranscribedWords[p] \notin WordsOf(ExpectedWords)
             /\ \A q \in 1..Len(ExpectedWords) :
                    q # p => TranscribedWords[q] = ExpectedWords[q])
            => /\ accuracy_analysis.mistakes =
                     <<[type |-> "substitution",
                        expected |-> ExpectedWords[p],
                        actual |-> TranscribedWords[p],
                        position |-> p - 1]>>
               /\ FracEq(Score, <<Len(ExpectedWords) - 1, Len(ExpectedWords)>>)

\* C6: when the transcript is the reference with exactly one word left
\* out, the mistakes are exactly one omission with expected = the missing
\* word, actual = "" and position = its index in the reference.  (Where
\* leaving out either of two indices gives the same transcript, either
\* index is accepted.)
SingleOmissionReported ==
    (Analysed /\ \E p \in 1..Len(ExpectedWords) :
                     TranscribedWords = RemoveAt(ExpectedWords, p))
        => \E p \in 1..Len(ExpectedWords) :
               /\ TranscribedWords = RemoveAt(ExpectedWords, p)
               /\ accuracy_analysis.mistakes =
                     <<[type |-> "omission",
                        expected |-> ExpectedWords[p],
                        actual |-> <<>>,
                        position |-> p - 1]>>

\* C7 as stated: an empty reference gives accuracy 0.0 and no mistakes,
\* whatever the transcript is.
EmptyReferenceScoresZero ==
    (Analysed /\ ExpectedWords = <<>>)
        => /\ FracEq(Score, <<0, 1>>)
           /\ accuracy_analysis.mistakes = <<>>

\* C7 amended: an empty reference never raises from the analysis; with an
\* empty transcript it gives accuracy 1.0 and no mistakes, with any other
\* transcript accuracy 0.0 and one insertion mistake at position 0 that
\* holds the whole transcript.
EmptyReferenceResult ==
    (pc = "done" /\ IsStr(expected) /\ IsStr(transcribed) /\ ExpectedWords = <<>>)
        => /\ DOMAIN accuracy_analysis =
                  {"accuracy_score", "word_accuracy", "total_words",
                   "mistakes", "corrections"}
           /\ IF TranscribedWords = <<>>
              THEN /\ FracEq(Score, <<1, 1>>)
                   /\ accuracy_analysis.mistakes = <<>>
              ELSE /\ FracEq(Score, <<0, 1>>)
                   /\ accuracy_analysis.mistakes =
                         <<[type |-> "insertion",
                            expected |-> <<>>,
                            actual |-> str_join(<<" ">>, TranscribedWords),
                            position |-> 0]>>

\* C7 witness: a reference that is not the empty text and holds no word,
\* analysed against a transcript of two words or more.
EmptyReferenceAnalysed ==
    /\ Analysed
    /\ expected # <<>>
    /\ ExpectedWords = <<>>
    /\ Len(TranscribedWords) >= 2

\* the words of the expected texts of the mistakes, in order
RECURSIVE ExpectedWordsOfMistakes(_)
ExpectedWordsOfMistakes(mistakes) ==
    IF mistakes = <<>> THEN <<>>
    ELSE str_split(Head(mistakes).expected) \o ExpectedWordsOfMistakes(Tail(mistakes))

\* C8: an empty transcript against a non-empty reference gives accuracy
\* 0.0; every mistake reported is an omission, and the expected texts of
\* the omissions hold every reference word.
EmptyTranscriptOmitsAll ==
    (Analysed /\ TranscribedWords = <<>> /\ ExpectedWords # <<>>)
        => /\ FracEq(Score, <<0, 1>>)
           /\ accuracy_analysis.mistakes # <<>>
           /\ \A n \in 1..Len(accuracy_analysis.mistakes) :
                  /\ accuracy_analysis.mistakes[n].type = "omission"
                  /\ accuracy_analysis.mistakes[n].actual = <<>>
           /\ ExpectedWordsOfMistakes(accuracy_analysis.mistakes) = ExpectedWords

\* C8 witness: a reference of three words or more analysed against the
\* empty transcript.
EmptyTranscriptAnalysed ==
    /\ Analysed
    /\ transcribed = <<>>
    /\ Len(ExpectedWords) >= 3

(***************************************************************************)
(* Properties of the normalisation (SpecNormalize).                        *)
(***************************************************************************)
CharsOf(s) == {s[i] : i \in 1..Len(s)}

\* normalising a normalised text changes nothing
NormalizeIdempotent ==
    pc = "renormalized" => renormalized = normalized

\* C9: normalising the output of _normalize_text again returns the same
\* string, for every text: the result is lower case, has no punctuation,
\* has its words separated by single spaces with no space at either end,
\* and the empty string maps to the empty string.
NormalizedIsCleanAndStable ==
    pc = "renormalized" =>
        /\ renormalized = normalized
        /\ CharsOf(normalized) \cap UpperLetters = {}
        /\ CharsOf(normalized) \cap Punctuation = {}
        /\ CharsOf(normalized) \cap Whitespace \subseteq {" "}
        /\ normalized # <<>> =>
               /\ normalized[1] # " "
               /\ normalized[Len(normalized)] # " "
        /\ \A i \in 1..(Len(normalized) - 1) :
               ~(normalized[i] = " " /\ normalized[i + 1] = " ")
        /\ text = <<>> => normalized = <<>>

Slope == trend_slope(values)

FluencyAnalysed == pc # "start" /\ IsStr(transcribed) /\ IsStr(expected)

FluencyWords == split_length(transcribed)

\* 0.7 * min(speed / target, 1.2) + 0.3 * pacing, for a pacing in thousandths
WeightedFluency(speed, target, pacing) ==
    LET capped == FracMin(Frac(speed[1], speed[2] * target), <<6, 5>>)
    IN  Frac(7 * capped[1] * 1000 + 3 * pacing * capped[2], 10 * capped[2] * 1000)

\* C12 as stated: the fluency score is 0.7 * min(speed_wpm / target_wpm, 1.2)
\* + 0.3 * pacing_consistency with the pacing fixed at 0.7 (the code has no
\* timestamps at all); 120 words in 60 seconds against the target of 60 wpm
\* give speed 120, ratio 1.2 and score 0.7 * 1.2 + 0.3 * 0.7.
FluencyScoreUsesFixedPacing ==
    FluencyAnalysed =>
        /\ FracEq(fluency_analysis.fluency_score,
                  WeightedFluency(fluency_analysis.reading_speed, target_wpm, 700))
        /\ (FluencyWords = 120 /\ audio_data = 60 * SampleRate) =>
               /\ FracEq(fluency_analysis.reading_speed, <<120, 1>>)
               /\ FracEq(fluency_analysis.fluency_score, <<105, 100>>)

\* C13 as stated: a transcript of zero words gives reading speed 0, a
\* fluency score of exactly 0 and the level "beginning".
ZeroWordsScoreZero ==
    (FluencyAnalysed /\ FluencyWords = 0) =>
        /\ fluency_analysis.reading_speed[1] = 0
        /\ fluency_analysis.fluency_score[1] = 0
        /\ fluency_analysis.fluency_level = "beginning"

\* C13 amended: a transcript of zero words gives reading speed 0, a fluency
\* score of 0.3 times the prosody score, which lies in [0.18, 0.27), and
\* the level "beginning"; the except branch is not taken.
ZeroWordsScoreIsProsodyShare ==
    (FluencyAnalysed /\ FluencyWords = 0) =>
        /\ fluency_analysis # FluencyFallback
        /\ fluency_analysis.reading_speed[1] = 0
        /\ FracEq(fluency_analysis.fluency_score,
                  <<3 * fluency_analysis.prosody_score[1],
                    10 * fluency_analysis.prosody_score[2]>>)
        /\ FracGeq(fluency_analysis.fluency_score, <<18, 100>>)
        /\ ~FracGeq(fluency_analysis.fluency_score, <<27, 100>>)
        /\ fluency_analysis.fluency_level = "beginning"

\* C13 witness: an empty transcript of a recording of two seconds, analysed.
EmptyTranscriptFluency ==
    /\ FluencyAnalysed
    /\ transcribed = <<>>
    /\ audio_data = 2 * SampleRate
    /\ fluency_analysis.fluency_level = "beginning"

\* C14 as stated: two analyses of the same arguments return the same
\* fluency score, the same prosody score and the same fluency level.
ReanalysisGivesSameResult ==
    (pc = "done" /\ IsStr(transcribed) /\ IsStr(expected)) =>
        /\ fluency_again.fluency_score = fluency_analysis.fluency_score
        /\ fluency_again.prosody_score = fluency_analysis.prosody_score
        /\ fluency_again.fluency_level = fluency_analysis.fluency_level

(***************************************************************************)
(* Properties of the session store (SpecSessions).                         *)
(***************************************************************************)
\* the call just answered is a reading analysis that returned success: True
AnalysisSucceeded(req, resp) ==
    req.op = "analyze_reading_comprehensive" /\ resp.success

\* the call just answered is a progress query that returned success: True
ProgressReported == request.op = "track_reading_progress" /\ response.success

StoredFor(child_id) == SessionsOf(reading_sessions, child_id)

\* C15 as stated: a reading analysis whose session record is not stored
\* reports a failure; every analysis that returns success: True has added
\* its record to reading_sessions.
StoreFailureIsReported ==
    [][AnalysisSucceeded(request', response') =>
          /\ Len(reading_sessions') = Len(reading_sessions) + 1
          /\ reading_sessions'[Len(reading_sessions')] =
                SessionRow(Len(reading_sessions'), request'.child_id,
                           response'.results)]_vars

\* stored session records stay where they are, unchanged
StoredSessionsKept ==
    [][/\ Len(reading_sessions') >= Len(reading_sessions)
       /\ SubSeq(reading_sessions', 1, Len(reading_sessions)) = reading_sessions]_vars

\* C17 as stated: the session history is append-only: every operation
\* leaves the stored records present and unchanged, and each successful
\* reading analysis adds exactly one new record for its learner.
SessionHistoryAppendOnly ==
    [][/\ Len(reading_sessions') >= Len(reading_sessions)
       /\ SubSeq(reading_sessions', 1, Len(reading_sessions)) = reading_sessions
       /\ AnalysisSucceeded(request', response') =>
              Len(SessionsOf(reading_sessions', request'.child_id))
                  = Len(SessionsOf(reading_sessions, request'.child_id)) + 1]_vars

\* the three trends of a progress report
ReportedTrends ==
    {response.progress.accuracy_trend, response.progress.fluency_trend,
     response.progress.speed_trend}

FollowsNonZeroScores(reported, ys) ==
    /\ Len(ys) < 2 => reported = "stable"
    /\ (Len(ys) >= 2 /\ trend_slope(ys)[1] > trend_slope(ys)[2]) => reported = "improving"
    /\ (Len(ys) >= 2 /\ trend_slope(ys)[1] < -trend_slope(ys)[2]) => reported = "declining"

AttemptsIn(row, c) ==
    attempted_count(phonics_patterns[c].patterns,
                    str_split(str_lower(row.text_read)),
                    str_split(str_lower(row.transcription)))

CorrectIn(row, c) ==
    correct_count(phonics_patterns[c].patterns,
                  str_split(str_lower(row.text_read)),
                  str_split(str_lower(row.transcription)))

\* the running totals of category c over the stored sessions of a learner
TotalAttempts(child_id, c) ==
    LET rows == StoredFor(child_id)
    IN  SumOver([i \in 1..Len(rows) |-> AttemptsIn(rows[i], c)], Len(rows))

TotalCorrect(child_id, c) ==
    LET rows == StoredFor(child_id)
    IN  SumOver([i \in 1..Len(rows) |-> CorrectIn(rows[i], c)], Len(rows))

\* the statistics of category c an analysis reports: zero when the
\* category is not among patterns_attempted
ReportedStat(c) ==
    LET stats == response.results.phonics_analysis.patterns_attempted
        found == {k \in 1..Len(stats) : stats[k].pattern = phonics_patterns[c].name}
    IN  IF found = {} THEN [attempts |-> 0, correct |-> 0]
        ELSE LET k == CHOOSE k \in found : TRUE
             IN  [attempts |-> stats[k].attempts, correct |-> stats[k].correct]

\* the latest stored session of the learner is the one just analysed
LatestSessionStored ==
    LET rows == StoredFor(request.child_id)
    IN  /\ rows # <<>>
        /\ rows[Len(rows)] =
              SessionRow(rows[Len(rows)].id, request.child_id, response.results)

\* C19 as stated: the attempts and correct counts held for a pattern
\* category once a session is stored (those of phonics_analysis: nothing
\* writes the table phonics_progress) are the running totals over all the
\* stored sessions of the learner.
PhonicsStatsAccumulate ==
    (AnalysisSucceeded(request, response) /\ LatestSessionStored) =>
        \A c \in 1..Len(phonics_patterns) :
            /\ ReportedStat(c).attempts = TotalAttempts(request.child_id, c)
            /\ ReportedStat(c).correct = TotalCorrect(request.child_id, c)

(***************************************************************************)
(* Properties of concurrent appends and reads (SpecConcurrent).            *)
(***************************************************************************)
\* the row a thread's append writes, wherever it lands
IsRowOf(row, w) ==
    row = SessionRow(row.id, worker_job[w].child_id, worker_job[w].analysis_results)

\* the threads whose _store_reading_session has returned with job
ReturnedWith(job) == {w \in Workers : worker_pc[w] = "returned" /\ worker_job[w] = job}

\* the stored rows an append of job has written
RowsWith(job) ==
    {i \in 1..Len(reading_sessions) :
        reading_sessions[i] = SessionRow(i, job.child_id, job.analysis_results)}

\* C16 as stated: under every interleaving each append that has completed
\* is in the store in full, none is lost or merged with another, and a
\* read fetches whole session records only.
CompletedAppendsStored ==
    /\ \A job \in StoreJobs :
           Cardinality(RowsWith(job)) >= Cardinality(ReturnedWith(job))
    /\ \A i \in 1..Len(reading_sessions) :
           \E w \in Workers : IsRowOf(reading_sessions[i], w)
    /\ \A i \in 1..Len(observed) :
           \E w \in Workers : IsRowOf(observed[i], w)

(***************************************************************************)
(* Runs of mistakes in the accuracy analysis (SpecAccuracy).               *)
(***************************************************************************)
\* the number of reference words a mistake covers
ReferenceSpan(mistake) == Len(str_split(mistake.expected))

\* between two consecutive mistakes lies at least one reference word that
\* belongs to neither, a matched word
MistakesSeparatedByMatch ==
    Analysed =>
        \A m \in 1..(Len(accuracy_analysis.mistakes) - 1) :
            accuracy_analysis.mistakes[m + 1].position
                >= accuracy_analysis.mistakes[m].position
                   + ReferenceSpan(accuracy_analysis.mistakes[m]) + 1

\* the transcript is the reference with the k words from index p on
\* replaced by words the reference does not hold
RunReplaced(p, k) ==
    /\ Len(TranscribedWords) = Len(ExpectedWords)
    /\ \A q \in 1..Len(ExpectedWords) :
           IF q \in p..(p + k - 1)
           THEN TranscribedWords[q] \notin WordsOf(ExpectedWords)
           ELSE TranscribedWords[q] = ExpectedWords[q]

\* C20 as stated: two consecutive mistakes are separated by at least one
\* matched word, and a run of k >= 2 consecutive replaced words is reported
\* as one substitution mistake spanning the run.
ReplacedRunIsOneSubstitution ==
    /\ MistakesSeparatedByMatch
    /\ Analysed =>
           \A p \in 1..Len(ExpectedWords) :
               \A k \in 2..(Len(ExpectedWords) - p + 1) :
                   RunReplaced(p, k) =>
                       accuracy_analysis.mistakes =
                           <<[type |-> "substitution",
                              expected |-> str_join(<<" ">>,
                                              SubSeq(ExpectedWords, p, p + k - 1)),
                              actual |-> str_join(<<" ">>,
                                            SubSeq(TranscribedWords, p, p + k - 1)),
                              position |-> p - 1]>>

(***************************************************************************)
(* Properties of the pronunciation analysis (SpecAttempt, SpecSimilarity). *)
(***************************************************************************)
\* the pronunciation analysis of the attempt has returned from its try
\* branch (the accuracy analysis has, too)
PronunciationAnalysed == pronunciation_analysis # NotRun

\* a substitution mistake whose expected text holds the word of the issue
\* (punctuation aside) at the position of the issue
SubstitutionCovers(mistake, issue) ==
    /\ mistake.type = "substitution"
    /\ LET ws == str_split(mistake.expected)
           k == issue.position - mistake.position + 1
       IN  /\ k \in 1..Len(ws)
           /\ ws[k] = normalize_text(issue.word)

\* C21 as stated: every pronunciation issue of an attempt comes from a
\* substitution mistake of the same attempt, whose expected text holds the
\* word of the issue at the position of the issue; an attempt without
\* substitution mistakes has no pronunciation issue.
IssuesComeFromSubstitutions ==
    PronunciationAnalysed =>
        \A k \in 1..Len(pronunciation_analysis.pronunciation_issues) :
            \E m \in 1..Len(accuracy_analysis.mistakes) :
                SubstitutionCovers(accuracy_analysis.mistakes[m],
                                   pronunciation_analysis.pronunciation_issues[k])

\* the whitespace-separated words of the reference, as the pronunciation
\* analysis counts them
ReferenceWordCount == split_length(expected)

PronunciationScore == pronunciation_analysis.pronunciation_score

\* C22: the pronunciation score is 1 - issues / max(1, reference words),
\* and lies in [0, 1], whether the transcript is longer or shorter than the
\* reference or as long.
PronunciationScoreInUnitInterval ==
    PronunciationAnalysed =>
        LET issues == Len(pronunciation_analysis.pronunciation_issues)
            total == IF ReferenceWordCount > 1 THEN ReferenceWordCount ELSE 1
        IN  /\ PronunciationScore[2] > 0
            /\ PronunciationScore[1] * total = (total - issues) * PronunciationScore[2]
            /\ 0 <= PronunciationScore[1]
            /\ PronunciationScore[1] <= PronunciationScore[2]

\* C22 witness: a transcript longer than its reference, with a
\* pronunciation issue and a score strictly between 0 and 1.
IssueInLongerTranscript ==
    /\ PronunciationAnalysed
    /\ split_length(transcribed) > ReferenceWordCount
    /\ pronunciation_analysis.pronunciation_issues # <<>>
    /\ 0 < PronunciationScore[1]
    /\ PronunciationScore[1] < PronunciationScore[2]

\* the positions at which both tuples have a code
SharedPositions ==
    {k \in 1..Len(phonetic1) : k <= Len(phonetic2)
                               /\ phonetic1[k] # <<>> /\ phonetic2[k] # <<>>}

\* C23: the similarity of two code tuples is the share of the positions
\* with equal codes among the positions at which both have a code; it lies
\* in [0, 1] and is 0 when there is no such position.
SimilarityIsShareOfEqualCodes ==
    pc = "done" =>
        /\ phonetic_similarity[2] > 0
        /\ 0 <= phonetic_similarity[1]
        /\ phonetic_similarity[1] <= phonetic_similarity[2]
        /\ (phonetic1 # NotATuple /\ phonetic2 # NotATuple) =>
               IF SharedPositions = {}
               THEN phonetic_similarity[1] = 0
               ELSE phonetic_similarity[1] * Cardinality(SharedPositions)
                       = Cardinality({k \in SharedPositions : phonetic1[k] = phonetic2[k]})
                            * phonetic_similarity[2]

\* C23 witness: two tuples with equal primary codes, of which only one has
\* a secondary code, compared: similarity 1.
EqualPrimaryCodesCompared ==
    /\ pc = "done"
    /\ Len(phonetic1) = 2 /\ Len(phonetic2) = 2
    /\ phonetic1[1] # <<>> /\ phonetic1[1] = phonetic2[1]
    /\ phonetic1[2] = <<>> /\ phonetic2[2] # <<>>
    /\ phonetic_similarity[1] = phonetic_similarity[2]

(***************************************************************************)
(* Properties of the phonics analysis (SpecAttempt).                       *)
(***************************************************************************)
\* the phonics analysis of the attempt has returned from its try branch
PhonicsAnalysed == phonics_analysis # NotRun

\* the words the phonics analysis pairs
ReferenceTokens == str_split(str_lower(expected))
TranscribedTokens == str_split(str_lower(transcribed))

\* the statistics reported for category c: zero when the category is not
\* among patterns_attempted
AttemptedStat(c) ==
    LET stats == phonics_analysis.patterns_attempted
        found == {k \in 1..Len(stats) : stats[k].pattern = phonics_patterns[c].name}
    IN  IF found = {} THEN [attempts |-> 0, correct |-> 0]
        ELSE LET k == CHOOSE k \in found : TRUE
             IN  [attempts |-> stats[k].attempts, correct |-> stats[k].correct]

\* the reference words that hold at least one pattern of category c
MatchingWords(c) ==
    {i \in 1..Len(ReferenceTokens) :
        \E k \in 1..Len(phonics_patterns[c].patterns) :
            Contains(ReferenceTokens[i], phonics_patterns[c].patterns[k])}

\* C24 as stated: the attempts of a category are the reference words that
\* hold at least one of its patterns, each counted once, and correct
\* counts those of them whose transcribed word is identical.
AttemptsCountMatchingWords ==
    PhonicsAnalysed =>
        \A c \in 1..Len(phonics_patterns) :
            /\ AttemptedStat(c).attempts = Cardinality(MatchingWords(c))
            /\ AttemptedStat(c).correct =
                  Cardinality({i \in MatchingWords(c) :
                                  /\ i <= Len(TranscribedTokens)
                                  /\ TranscribedTokens[i] = ReferenceTokens[i]})

\* the pairs of a reference word that has a transcribed word at its index
\* and a pattern of category c that the word holds
MatchingPairs(c) ==
    {ik \in (1..Len(ReferenceTokens)) \X (1..Len(phonics_patterns[c].patterns)) :
        /\ ik[1] <= Len(TranscribedTokens)
        /\ Contains(ReferenceTokens[ik[1]], phonics_patterns[c].patterns[ik[2]])}

\* what the counters hold: the attempts of a category count, over the
\* reference words that have a transcribed word at the same index, every
\* pattern of the category the word holds ("boat" read as "boat" gives 2
\* attempts for the short vowels), and correct counts the same for the
\* words whose transcribed word is identical
AttemptsCountMatchingPatterns ==
    PhonicsAnalysed =>
        /\ \A c \in 1..Len(phonics_patterns) :
               /\ AttemptedStat(c).attempts = Cardinality(MatchingPairs(c))
               /\ AttemptedStat(c).correct =
                     Cardinality({ik \in MatchingPairs(c) :
                                     TranscribedTokens[ik[1]] = ReferenceTokens[ik[1]]})
        /\ (ReferenceTokens = <<<<"b", "o", "a", "t">>>> /\ TranscribedTokens = <<<<"b", "o", "a", "t">>>>) =>
               AttemptedStat(1) = [attempts |-> 2, correct |-> 2]

NamesIn(names) == {names[k] : k \in 1..Len(names)}

\* C25: every category reported as attempted has attempts >= 1 and
\* 0 <= correct <= attempts, so its success rate lies in [0, 1]; it is
\* listed as mastered exactly when the rate is >= 0.8 and as struggling
\* exactly when it is < 0.5; no category is both, and every mastered or
\* struggling category is among the attempted ones.
PhonicsListsFollowSuccessRate ==
    PhonicsAnalysed =>
        LET stats == phonics_analysis.patterns_attempted
            mastered == NamesIn(phonics_analysis.patterns_mastered)
            struggling == NamesIn(phonics_analysis.patterns_struggling)
        IN  /\ \A k \in 1..Len(stats) :
                   /\ stats[k].attempts >= 1
                   /\ 0 <= stats[k].correct
                   /\ stats[k].correct <= stats[k].attempts
                   /\ FracEq(stats[k].success_rate,
                             <<stats[k].correct, stats[k].attempts>>)
                   /\ stats[k].pattern \in mastered
                          <=> 10 * stats[k].correct >= 8 * stats[k].attempts
                   /\ stats[k].pattern \in struggling
                          <=> 10 * stats[k].correct < 5 * stats[k].attempts
            /\ mastered \cap struggling = {}
            /\ mastered \cup struggling \subseteq {stats[k].pattern : k \in 1..Len(stats)}

\* C25 witness: an analysis with a mastered category and an attempted
\* category that is neither mastered nor struggling.
MasteredAndUndecided ==
    /\ PhonicsAnalysed
    /\ phonics_analysis.patterns_mastered # <<>>
    /\ \E k \in 1..Len(phonics_analysis.patterns_attempted) :
           LET name == phonics_analysis.patterns_attempted[k].pattern
           IN  /\ name \notin NamesIn(phonics_analysis.patterns_mastered)
               /\ name \notin NamesIn(phonics_analysis.patterns_struggling)

(***************************************************************************)
(* Trends over sessions with a score of 0.0 (SpecSessions).                *)
(***************************************************************************)
\* the scores of one metric of all the sessions, zeros included
AllScores(sessions, column) ==
    [i \in 1..Len(sessions) |-> Hundredths(sessions[i][column])]

\* C26 as stated: the trend of a metric is computed over the values of all
\* the sessions read from the store, at the indices 0..n-1: a session with
\* the score 0.0 contributes its value and keeps its index.
TrendCountsEverySession ==
    (ProgressReported /\ StoredFor(request.child_id) # <<>>) =>
        LET sessions == StoredFor(request.child_id)
        IN  /\ FollowsNonZeroScores(response.progress.accuracy_trend,
                                    AllScores(sessions, "accuracy_score"))
            /\ FollowsNonZeroScores(response.progress.fluency_trend,
                                    AllScores(sessions, "fluency_score"))
            /\ FollowsNonZeroScores(response.progress.speed_trend,
                                    AllScores(sessions, "reading_speed"))

(***************************************************************************)
(* The fluency level (SpecFluency).                                        *)
(***************************************************************************)
\* the four levels by their thresholds
LevelOf(score) ==
    IF 10 * score[1] >= 9 * score[2] THEN "advanced"
    ELSE IF 10 * score[1] >= 7 * score[2] THEN "proficient"
    ELSE IF 10 * score[1] >= 5 * score[2] THEN "developing"
    ELSE "beginning"

\* C27: the fluency level is "advanced" for a score >= 0.9, "proficient"
\* for 0.7 <= score < 0.9, "developing" for 0.5 <= score < 0.7 and
\* "beginning" below 0.5, and the level of a result is always the level of
\* that result's own fluency_score (the result of the except branch
\* included).
LevelClassifiesOwnScore ==
    /\ pc # "start" =>
           fluency_analysis.fluency_level = LevelOf(fluency_analysis.fluency_score)
    /\ pc = "done" =>
           fluency_again.fluency_level = LevelOf(fluency_again.fluency_score)

\* C27 witness: two analyses of the same reading with different levels,
\* "proficient" and then "advanced".
ProficientThenAdvanced ==
    /\ pc = "done"
    /\ IsStr(transcribed) /\ IsStr(expected)
    /\ fluency_analysis.fluency_level = "proficient"
    /\ fluency_again.fluency_level = "advanced"

(***************************************************************************)
(* The timestamp-based fluency score (SpecTimestamps).                     *)
(***************************************************************************)
\* whole - sqrt(root) < 0
IsNegative(score) ==
    score.whole[1] * score.whole[1] * score.root[2]
        < score.root[1] * score.whole[2] * score.whole[2]

\* C28 as stated: the score computed from the inter-word pauses is never
\* negative, even when the standard deviation of the pauses exceeds their
\* mean (pauses of 0, 0 and 1 second).
TimestampFluencyNeverNegative ==
    pc = "done" => ~IsNegative(timestamp_fluency)

(***************************************************************************)
(* The word_accuracy count (SpecAccuracy).                                 *)
(***************************************************************************)
\* C29 as stated: word_accuracy, the number of reference words minus the
\* number of mistakes, lies between 0 and total_words.
WordAccuracyInRange ==
    Analysed =>
        /\ 0 <= accuracy_analysis.word_accuracy
        /\ accuracy_analysis.word_accuracy <= accuracy_analysis.total_words

(***************************************************************************)
(* Effects of one reading analysis on the store (SpecAttempt).             *)
(***************************************************************************)
\* the call has returned without a transcript
TranscriptionHasFailed ==
    pc = "idle" /\ request.op # "none" /\ ~IsStr(transcribed)

\* the four analyses of the call have returned
AnalysesCompleted ==
    /\ accuracy_analysis # NotRun
    /\ fluency_analysis # NotRun
    /\ pronunciation_analysis # NotRun
    /\ phonics_analysis # NotRun

====
